---- MODULE Spec2Model ----
(***************************************************************************)
(* The reputation ledger of bestgradez-bot: the two Firestore collections  *)
(* 'reps' and 'channels', and the grant / revoke handlers that mutate them *)
(* (src/main.py and src/utils/firebase-manager.py).                        *)
(*                                                                         *)
(* Spec      every handler runs to completion as one action (a handler     *)
(*           holds no await between its store calls); any one store call   *)
(*           of a handler may raise.                                       *)
(* SpecConc  several clients of the same store, one store call per step.   *)
(*                                                                         *)
(* The event handlers above the ledger (commands, messages, the cooldown   *)
(* map and the trigger test of src/main.py and src/cogs/reputation.py):    *)
(*                                                                         *)
(* SpecCooldown  the cooldown map and the clock.                           *)
(* SpecReject    the cooldown rejection of the handlers, which reads the   *)
(*               clock twice.                                              *)
(* SpecTrigger   the trigger test of on_message on bounded texts.          *)
(* Every event is handled by a task of its own, and the tasks interleave   *)
(* where a handler awaits the gateway:                                     *)
(* SpecCmd       the give_rep command and the clock.                       *)
(* SpecMsg       on_message and the clock.                                 *)
(* SpecRevoke    the give_rep and remove_rep commands.                     *)
(* SpecCmdConc   the give_rep command, on_message and the clock.           *)
(*                                                                         *)
(* The queries and the leaderboard view:                                   *)
(*                                                                         *)
(* SpecQuery     grants and revokes without store errors, each followed by *)
(*               the read-only queries on the store they left.             *)
(* SpecPage      the button handlers of one LeaderboardView on a populated *)
(*               store, interleaving where they await the defer.           *)
(* SpecFormat    format_cooldown on bounded durations.                     *)
(***************************************************************************)
EXTENDS Integers, Sequences, FiniteSets, TLC

(* ------------------------------ bounds -------------------------------- *)

\* handlers run in a behaviour of Spec
MaxOps == 3
\* handlers begun in a behaviour of SpecConc
MaxCalls == 3

Guilds == {"g1"}
\* recipients, and the users who give
Users == {"u1", "u2"}
Givers == {"u3", "u4"}
Channels == {"c1", "c2"}
Names == {"general", "help"}

\* channel_id = None (main.py:208, firebase-manager.py:128)
None == "None"

VARIABLES
    reps,       \* collection 'reps':     doc id -> UserReputationRecord
    chans,      \* collection 'channels': doc id -> ChannelActivityRecord
    last,       \* Spec: the handler that ran last, its arguments and result
    pre,        \* Spec: the two collections as they were when that handler began
    undo,       \* Spec: set by a revoke that directly follows a successful grant
                \*       to the same (guild, user, channel): the values before the grant
    overlap,    \* SpecConc: a grant has run while another handler was in flight
    asked,      \* SpecConc: doc id -> number of main.py give_rep calls begun
    granted,    \* history: doc id -> number of grants that returned True
    revoked,    \* history: doc id -> number of revokes that returned True
    nops,       \* history: handlers run so far
    pc,         \* client -> position in its handler (SpecConc), or in the task
                \*           that handles its event
    call,       \* client -> handler and arguments; the inputs of its task
    loc,        \* SpecConc: client -> locals of the handler
    site,       \* the program that runs: main.py, or the cog with FirebaseManager
    rep_cooldowns,  \* rep_cooldowns: giver -> timestamp of the last recorded grant
    now,        \* datetime.datetime.now().timestamp(), in ticks
    ev,         \* history: the event handled last, its inputs and what it did
    log,        \* history: the successful ledger grants, with giver and time;
                \* SpecQuery: the successful revokes without a channel_id
    inserted,   \* doc id -> the keys of the document's mapping (channels of a
                \*           user record, users of a channel record) in the order
                \*           in which the program inserted them (history)
    view        \* the LeaderboardView on display: its page cursor and channel

\* the state of the event handlers (commands, messages, cooldowns) and of
\* the queries and their view
cmdvars == <<site, rep_cooldowns, now, ev, log, inserted, view>>

vars == <<reps, chans, last, pre, undo, overlap, asked, granted, revoked, nops, pc, call, loc,
          site, rep_cooldowns, now, ev, log, inserted, view>>

(* ------------------------- the backing store -------------------------- *)

\* f"{guild_id}_{user_id}": ids are decimal snowflakes, so the id is the pair
DocId(g, x) == <<g, x>>

Max(a, b) == IF a >= b THEN a ELSE b

RECURSIVE SumOver(_, _)
SumOver(f, S) ==
    IF S = {} THEN 0
    ELSE LET x == CHOOSE y \in S : TRUE IN f[x] + SumOver(f, S \ {x})

\* sum(d.values()) of a mapping
SumValues(f) == SumOver(f, DOMAIN f)

\* DocumentReference.get(): a snapshot with .exists and .to_dict()
DocGet(coll, id) ==
    IF id \in DOMAIN coll
    THEN [exists |-> TRUE, data |-> coll[id]]
    ELSE [exists |-> FALSE, data |-> <<>>]

\* DocumentReference.set(doc): creates or replaces the whole document
DocSet(coll, id, doc) ==
    [x \in (DOMAIN coll) \cup {id} |-> IF x = id THEN doc ELSE coll[x]]

\* DocumentReference.update({'count', 'channels', 'given_by'}): replaces these
\* three fields of the stored document and keeps the others
UserUpdate3(coll, id, count, channels, given_by) ==
    [coll EXCEPT ![id] = [@ EXCEPT !.count = count, !.channels = channels,
                                   !.given_by = given_by]]

\* DocumentReference.update({'count', 'channels'})
UserUpdate2(coll, id, count, channels) ==
    [coll EXCEPT ![id] = [@ EXCEPT !.count = count, !.channels = channels]]

\* DocumentReference.update({'count'})
UserUpdate1(coll, id, count) ==
    [coll EXCEPT ![id] = [@ EXCEPT !.count = count]]

\* DocumentReference.update({'channel_name', 'total_reps', 'users'})
ChannelUpdate3(coll, id, channel_name, total_reps, users) ==
    [coll EXCEPT ![id] = [@ EXCEPT !.channel_name = channel_name,
                                   !.total_reps = total_reps, !.users = users]]

\* DocumentReference.update({'users', 'total_reps'})
ChannelUpdate2(coll, id, users, total_reps) ==
    [coll EXCEPT ![id] = [@ EXCEPT !.users = users, !.total_reps = total_reps]]

\* the result of a handler: the two collections and the returned boolean;
\* exc tells that the handler was left by an exception instead of a return,
\* caught that its except clause ran
Outcome(r, c, ok) ==
    [reps |-> r, chans |-> c, ok |-> ok, exc |-> FALSE, caught |-> FALSE]

\* a store call raised inside the try block: the block is left by the
\* exception, with the writes made before it
Raised(r, c) ==
    [reps |-> r, chans |-> c, ok |-> FALSE, exc |-> TRUE, caught |-> FALSE]

\* except_return_false without the except clause: the exception goes on to
\* the caller
except_reraise(o) == o

\* except Exception as e: logger.error(...); return False
except_return_false(o) ==
    IF o.exc THEN [Outcome(o.reps, o.chans, FALSE) EXCEPT !.caught = TRUE]
    ELSE o

\* a call inside the try block of the handler raised: its except clause ran,
\* or the exception left the handler
store_error(o) == o.caught \/ o.exc

(* ------------------------------ give_rep ------------------------------ *)

\* give_rep_user_write with given_by reset to the last giver on an update
give_rep_user_write_resets_given_by(coll, a, user_doc) ==
    IF ~user_doc.exists
    THEN DocSet(coll, DocId(a.g, a.u),
                [guild_id |-> a.g, user_id |-> a.u, count |-> 1,
                 channels |-> (a.c :> [name |-> a.n, count |-> 1]),
                 given_by |-> (a.by :> 1)])
    ELSE LET user_data == user_doc.data
             channels ==
                 IF a.c \in DOMAIN user_data.channels
                 THEN [user_data.channels EXCEPT
                          ![a.c] = [name |-> a.n, count |-> @.count + 1]]
                 ELSE user_data.channels @@ (a.c :> [name |-> a.n, count |-> 1])
         IN UserUpdate3(coll, DocId(a.g, a.u), user_data.count + 1, channels,
                        (a.by :> 1))

\* give_rep_user_write that writes a channels mapping holding the channel of
\* the grant only
give_rep_user_write_one_channel(coll, a, user_doc) ==
    IF ~user_doc.exists
    THEN DocSet(coll, DocId(a.g, a.u),
                [guild_id |-> a.g, user_id |-> a.u, count |-> 1,
                 channels |-> (a.c :> [name |-> a.n, count |-> 1]),
                 given_by |-> (a.by :> 1)])
    ELSE LET user_data == user_doc.data
             new_count == user_data.count + 1
             channels ==
                 IF a.c \in DOMAIN user_data.channels
                 THEN (a.c :> [name |-> a.n,
                               count |-> user_data.channels[a.c].count + 1])
                 ELSE (a.c :> [name |-> a.n, count |-> 1])
             given_by_dict ==
                 IF a.by \in DOMAIN user_data.given_by
                 THEN [user_data.given_by EXCEPT ![a.by] = @ + 1]
                 ELSE user_data.given_by @@ (a.by :> 1)
         IN UserUpdate3(coll, DocId(a.g, a.u), new_count, channels, given_by_dict)

\* the write to the user document, from the snapshot user_doc read before it
give_rep_user_write(coll, a, user_doc) ==
    IF ~user_doc.exists
    THEN DocSet(coll, DocId(a.g, a.u),
                [guild_id |-> a.g, user_id |-> a.u, count |-> 1,
                 channels |-> (a.c :> [name |-> a.n, count |-> 1]),
                 given_by |-> (a.by :> 1)])
    ELSE LET user_data == user_doc.data
             new_count == user_data.count + 1
             channels ==
                 IF a.c \in DOMAIN user_data.channels
                 THEN [user_data.channels EXCEPT
                          ![a.c] = [name |-> a.n, count |-> @.count + 1]]
                 ELSE user_data.channels @@ (a.c :> [name |-> a.n, count |-> 1])
             given_by_dict ==
                 IF a.by \in DOMAIN user_data.given_by
                 THEN [user_data.given_by EXCEPT ![a.by] = @ + 1]
                 ELSE user_data.given_by @@ (a.by :> 1)
         IN UserUpdate3(coll, DocId(a.g, a.u), new_count, channels, given_by_dict)

\* give_rep_channel_write that leaves channel_name as stored on an update
give_rep_channel_write_keeps_name(coll, a, channel_doc) ==
    IF ~channel_doc.exists
    THEN DocSet(coll, DocId(a.g, a.c),
                [guild_id |-> a.g, channel_id |-> a.c, channel_name |-> a.n,
                 users |-> (a.u :> 1), total_reps |-> 1])
    ELSE LET channel_data == channel_doc.data
             users ==
                 IF a.u \in DOMAIN channel_data.users
                 THEN [channel_data.users EXCEPT ![a.u] = @ + 1]
                 ELSE channel_data.users @@ (a.u :> 1)
         IN ChannelUpdate3(coll, DocId(a.g, a.c), channel_data.channel_name,
                           channel_data.total_reps + 1, users)

\* the write to the channel document, from the snapshot channel_doc
give_rep_channel_write(coll, a, channel_doc) ==
    IF ~channel_doc.exists
    THEN DocSet(coll, DocId(a.g, a.c),
                [guild_id |-> a.g, channel_id |-> a.c, channel_name |-> a.n,
                 users |-> (a.u :> 1), total_reps |-> 1])
    ELSE LET channel_data == channel_doc.data
             new_total == channel_data.total_reps + 1
             users ==
                 IF a.u \in DOMAIN channel_data.users
                 THEN [channel_data.users EXCEPT ![a.u] = @ + 1]
                 ELSE channel_data.users @@ (a.u :> 1)
         IN ChannelUpdate3(coll, DocId(a.g, a.c), a.n, new_total, users)

\* main.py give_rep: get, write, get, write, with no transaction. A store
\* call that raises ends the handler in its except clause, which returns
\* False; the writes made before it stay.
main_give_rep(S, a, raise) ==
    LET user_doc == DocGet(S.reps, DocId(a.g, a.u))
        reps1 == give_rep_user_write(S.reps, a, user_doc)
        channel_doc == DocGet(S.chans, DocId(a.g, a.c))
        chans1 == give_rep_channel_write(S.chans, a, channel_doc)
    IN  except_return_false(
            IF raise = "before_first_write" THEN Raised(S.reps, S.chans)
            ELSE IF raise = "after_first_write" THEN Raised(reps1, S.chans)
            ELSE Outcome(reps1, chans1, TRUE))

\* A read inside a transaction: the client refuses it once the transaction
\* has buffered a write (ReadAfterWriteError, the "read after write"
\* transaction error of main.py:126-127).
TxnGet(write_pbs, coll, id) ==
    IF Len(write_pbs) > 0
    THEN [raised |-> TRUE, doc |-> DocGet(coll, id)]
    ELSE [raised |-> FALSE, doc |-> DocGet(coll, id)]

\* FirebaseManager.give_rep.transaction_update: the writes are buffered in the
\* transaction and applied together at commit; the function leaves by the
\* exception of the channel read when that read is refused.
transaction_update(S, a) ==
    LET r1 == TxnGet(<<>>, S.reps, DocId(a.g, a.u))
        write_pbs == <<DocId(a.g, a.u)>>
        r2 == TxnGet(write_pbs, S.chans, DocId(a.g, a.c))
    IN  IF r1.raised \/ r2.raised
        THEN Raised(S.reps, S.chans)
        ELSE Outcome(give_rep_user_write(S.reps, a, r1.doc),
                     give_rep_channel_write(S.chans, a, r2.doc), TRUE)

\* FirebaseManager.give_rep: the transaction commits both writes or neither;
\* any exception (its own, or a store call that raises) gives False.
fm_give_rep(S, a, raise) ==
    except_return_false(IF raise # "never" THEN Raised(S.reps, S.chans)
                        ELSE transaction_update(S, a))

(* ----------------------------- remove_rep ----------------------------- *)

\* remove_rep_check without the test of the count
remove_rep_check_no_floor(user_doc, c) ==
    /\ user_doc.exists
    /\ (c # None =>
          ~(c \notin DOMAIN user_doc.data.channels
            \/ user_doc.data.channels[c].count <= 0))

\* remove_rep_check that, with a channel_id, tests the channel entry only
remove_rep_check_channel_entry_only(user_doc, c) ==
    /\ user_doc.exists
    /\ IF c # None
       THEN ~(c \notin DOMAIN user_doc.data.channels
              \/ user_doc.data.channels[c].count <= 0)
       ELSE ~(user_doc.data.count <= 0)

\* remove_rep_check without the test of the channel entry
remove_rep_check_no_channel(user_doc, c) ==
    /\ user_doc.exists
    /\ ~(user_doc.data.count <= 0)

\* the early returns of remove_rep after the user document is read:
\* TRUE when the handler goes on to write
remove_rep_check(user_doc, c) ==
    /\ user_doc.exists
    /\ ~(user_doc.data.count <= 0)
    /\ (c # None =>
          ~(c \notin DOMAIN user_doc.data.channels
            \/ user_doc.data.channels[c].count <= 0))

\* remove_rep_touches_channel without the test users[user_id] > 0
remove_rep_touches_channel_no_positive(a, channel_doc) ==
    /\ channel_doc.exists
    /\ a.u \in DOMAIN channel_doc.data.users

\* remove_rep that never writes the channel document
remove_rep_touches_channel_never(a, channel_doc) == FALSE

\* whether remove_rep writes the channel document, from its snapshot
remove_rep_touches_channel(a, channel_doc) ==
    /\ channel_doc.exists
    /\ a.u \in DOMAIN channel_doc.data.users
    /\ channel_doc.data.users[a.u] > 0

\* the channel write of remove_rep with total_reps left as it was
remove_rep_channel_write_keeps_total(coll, a, channel_doc) ==
    LET channel_data == channel_doc.data
        users == [channel_data.users EXCEPT ![a.u] = @ - 1]
    IN ChannelUpdate2(coll, DocId(a.g, a.c), users, channel_data.total_reps)

\* channel_ref.update({'users', 'total_reps'}) of remove_rep
remove_rep_channel_write(coll, a, channel_doc) ==
    LET channel_data == channel_doc.data
        users == [channel_data.users EXCEPT ![a.u] = @ - 1]
    IN ChannelUpdate2(coll, DocId(a.g, a.c), users,
                      Max(0, channel_data.total_reps - 1))

\* the user write of remove_rep that, with no channel_id, takes one point off
\* every channel entry
remove_rep_user_write_all_channels(coll, a, user_doc) ==
    LET user_data == user_doc.data
        current_count == user_data.count
    IN  IF a.c # None
        THEN LET channels == [user_data.channels EXCEPT
                                 ![a.c].count = Max(0, @ - 1)]
             IN UserUpdate2(coll, DocId(a.g, a.u), Max(0, current_count - 1),
                            channels)
        ELSE UserUpdate2(coll, DocId(a.g, a.u), Max(0, current_count - 1),
                 [c \in DOMAIN user_data.channels |->
                     [user_data.channels[c] EXCEPT !.count = Max(0, @ - 1)]])

\* the user write of remove_rep that, with a channel_id, leaves the count as
\* it was
remove_rep_user_write_channel_only(coll, a, user_doc) ==
    LET user_data == user_doc.data
        current_count == user_data.count
    IN  IF a.c # None
        THEN LET channels == [user_data.channels EXCEPT
                                 ![a.c].count = Max(0, @ - 1)]
             IN UserUpdate2(coll, DocId(a.g, a.u), current_count, channels)
        ELSE UserUpdate1(coll, DocId(a.g, a.u), Max(0, current_count - 1))

\* the user write of remove_rep that writes the count only, with or without
\* a channel_id
remove_rep_user_write_count_only(coll, a, user_doc) ==
    LET user_data == user_doc.data
        current_count == user_data.count
    IN  UserUpdate1(coll, DocId(a.g, a.u), Max(0, current_count - 1))

\* user_ref.update(...) of remove_rep, from the snapshot user_doc
remove_rep_user_write(coll, a, user_doc) ==
    LET user_data == user_doc.data
        current_count == user_data.count
    IN  IF a.c # None
        THEN LET channels == [user_data.channels EXCEPT
                                 ![a.c].count = Max(0, @ - 1)]
             IN UserUpdate2(coll, DocId(a.g, a.u), Max(0, current_count - 1),
                            channels)
        ELSE UserUpdate1(coll, DocId(a.g, a.u), Max(0, current_count - 1))

\* remove_rep (the same code in main.py, rep_bot.py and FirebaseManager):
\* user get, then with a channel_id channel get and channel update, then user
\* update. A store call that raises gives False; a channel update made before
\* it stays.
remove_rep(S, a, raise) ==
    LET user_doc == DocGet(S.reps, DocId(a.g, a.u))
        channel_doc == DocGet(S.chans, DocId(a.g, a.c))
        touch == a.c # None /\ remove_rep_touches_channel(a, channel_doc)
        chans1 == IF touch THEN remove_rep_channel_write(S.chans, a, channel_doc)
                  ELSE S.chans
    IN  except_return_false(
            IF raise = "before_first_write" THEN Raised(S.reps, S.chans)
            ELSE IF ~remove_rep_check(user_doc, a.c)
            THEN Outcome(S.reps, S.chans, FALSE)
            ELSE IF touch /\ raise = "after_first_write"
            THEN Raised(S.reps, chans1)
            ELSE Outcome(remove_rep_user_write(S.reps, a, user_doc), chans1, TRUE))

\* a store call of remove_rep raises: one before the first write does (the
\* user get is always made), one after it when there is one, which is the
\* user update that follows a channel update
remove_rep_raises(S, a, raise) ==
    LET user_doc == DocGet(S.reps, DocId(a.g, a.u))
        channel_doc == DocGet(S.chans, DocId(a.g, a.c))
    IN  \/ raise = "before_first_write"
        \/ /\ raise = "after_first_write"
           /\ remove_rep_check(user_doc, a.c)
           /\ a.c # None
           /\ remove_rep_touches_channel(a, channel_doc)

(* -------------------- Spec: handlers run to completion ----------------- *)

UserIds == Guilds \X Users
\* when a store call of a handler raises: never, before the handler's first
\* write is applied, or after its first write is applied (by a store call
\* that follows that write, if the handler makes one)
Raises == {"never", "before_first_write", "after_first_write"}
Store == [reps |-> reps, chans |-> chans]

Args(g, u, c, n, by) == [g |-> g, u |-> u, c |-> c, n |-> n, by |-> by]
NoArgs == Args(None, None, None, None, None)
NoDoc == [exists |-> FALSE, data |-> <<>>]
NoLocals == [user_doc |-> NoDoc, channel_doc |-> NoDoc]

\* SpecConc: the clients of the store, each handling the events of one giver
Clients == {"p1", "p2"}
GiverOf(p) == IF p = "p1" THEN "u3" ELSE "u4"

Ran(op, impl, a, raise, ok) ==
    [op |-> op, impl |-> impl, a |-> a, raise |-> raise, ok |-> ok]

\* the counters of the records, an absent record or key counting as 0
UCount(R, id) == IF id \in DOMAIN R THEN R[id].count ELSE 0
UChan(R, id, c) ==
    IF id \in DOMAIN R /\ c \in DOMAIN R[id].channels
    THEN R[id].channels[c].count ELSE 0
UGiven(R, id, by) ==
    IF id \in DOMAIN R /\ by \in DOMAIN R[id].given_by
    THEN R[id].given_by[by] ELSE 0
CTotal(C, id) == IF id \in DOMAIN C THEN C[id].total_reps ELSE 0
CUser(C, id, u) ==
    IF id \in DOMAIN C /\ u \in DOMAIN C[id].users THEN C[id].users[u] ELSE 0

NoUndo == [on |-> FALSE, count |-> 0, chan |-> 0, cuser |-> 0, total |-> 0]
NoEvent == [kind |-> "none"]
\* no mapping has been written
NoKeys == [reps |-> <<>>, chans |-> <<>>]
\* no LeaderboardView has been constructed
NoView == [open |-> FALSE]

Init ==
    /\ reps = <<>>
    /\ chans = <<>>
    /\ last = Ran("none", "none", NoArgs, "never", FALSE)
    /\ pre = [reps |-> <<>>, chans |-> <<>>]
    /\ undo = NoUndo
    /\ overlap = FALSE
    /\ asked = [id \in UserIds |-> 0]
    /\ granted = [id \in UserIds |-> 0]
    /\ revoked = [id \in UserIds |-> 0]
    /\ nops = 0
    /\ pc = [p \in Clients |-> "idle"]
    /\ call = [p \in Clients |-> NoArgs]
    /\ loc = [p \in Clients |-> NoLocals]
    /\ site = "main"
    /\ rep_cooldowns = <<>>
    /\ now = 0
    /\ ev = NoEvent
    /\ log = {}
    /\ inserted = NoKeys
    /\ view = NoView

\* one handler, from its call to its return
Handle(op, impl, a, raise, r) ==
    /\ nops < MaxOps
    /\ nops' = nops + 1
    /\ reps' = r.reps
    /\ chans' = r.chans
    /\ pre' = Store
    /\ last' = Ran(op, impl, a, raise, r.ok)
    /\ undo' = IF /\ op = "remove_rep" /\ raise = "never"
                  /\ last.op = "give_rep" /\ last.ok
                  /\ a.g = last.a.g /\ a.u = last.a.u /\ a.c = last.a.c
               THEN [on |-> TRUE,
                     count |-> UCount(pre.reps, DocId(a.g, a.u)),
                     chan |-> UChan(pre.reps, DocId(a.g, a.u), a.c),
                     cuser |-> CUser(pre.chans, DocId(a.g, a.c), a.u),
                     total |-> CTotal(pre.chans, DocId(a.g, a.c))]
               ELSE NoUndo
    /\ granted' = IF op = "give_rep" /\ r.ok
                  THEN [granted EXCEPT ![DocId(a.g, a.u)] = @ + 1] ELSE granted
    /\ revoked' = IF op = "remove_rep" /\ r.ok
                  THEN [revoked EXCEPT ![DocId(a.g, a.u)] = @ + 1] ELSE revoked
    /\ UNCHANGED <<overlap, asked, pc, call, loc>>
    /\ UNCHANGED cmdvars

GiveRepMain ==
    \E g \in Guilds, u \in Users, c \in Channels, n \in Names, by \in Givers,
       raise \in Raises :
        LET a == Args(g, u, c, n, by)
        IN Handle("give_rep", "main", a, raise, main_give_rep(Store, a, raise))

GiveRepFirebaseManager ==
    \E g \in Guilds, u \in Users, c \in Channels, n \in Names, by \in Givers,
       raise \in {"never", "before_first_write"} :
        LET a == Args(g, u, c, n, by)
        IN Handle("give_rep", "fm", a, raise, fm_give_rep(Store, a, raise))

RemoveRep ==
    \E g \in Guilds, u \in Users, c \in Channels \cup {None},
       raise \in Raises :
        LET a == Args(g, u, c, None, None)
        IN Handle("remove_rep", "any", a, raise, remove_rep(Store, a, raise))

Next == GiveRepMain \/ GiveRepFirebaseManager \/ RemoveRep

Spec == Init /\ [][Next]_vars

(* ------------- SpecConc: clients interleave at store calls ------------- *)

\* Each action is one store call of a handler together with the local
\* computation up to the next store call. user_ref.get() begins the handler.

InFlight(q) == pc[q] # "idle"
InGive(q) == pc[q] \in {"give_user_write", "give_channel_get", "give_channel_write"}

Begin(p) ==
    /\ pc[p] = "idle"
    /\ nops < MaxCalls
    /\ nops' = nops + 1

Return(p) ==
    /\ pc' = [pc EXCEPT ![p] = "idle"]
    /\ call' = [call EXCEPT ![p] = NoArgs]
    /\ loc' = [loc EXCEPT ![p] = NoLocals]

\* main.py:130  user_doc = user_ref.get()
GiveUserGet(p) ==
    \E g \in Guilds, u \in Users, c \in Channels, n \in Names :
        /\ Begin(p)
        /\ call' = [call EXCEPT ![p] = Args(g, u, c, n, GiverOf(p))]
        /\ loc' = [loc EXCEPT ![p].user_doc = DocGet(reps, DocId(g, u))]
        /\ pc' = [pc EXCEPT ![p] = "give_user_write"]
        /\ overlap' = (overlap \/ \E q \in Clients \ {p} : InFlight(q))
        /\ asked' = [asked EXCEPT ![DocId(g, u)] = @ + 1]
        /\ UNCHANGED <<reps, chans, last, pre, undo, granted, revoked>>
        /\ UNCHANGED cmdvars

\* main.py:134 / 166  user_ref.set(...) or user_ref.update(...)
GiveUserWrite(p) ==
    /\ pc[p] = "give_user_write"
    /\ reps' = give_rep_user_write(reps, call[p], loc[p].user_doc)
    /\ pc' = [pc EXCEPT ![p] = "give_channel_get"]
    /\ UNCHANGED <<chans, last, pre, undo, overlap, asked, granted, revoked, nops,
                   call, loc>>
    /\ UNCHANGED cmdvars

\* main.py:173  channel_doc = channel_ref.get()
GiveChannelGet(p) ==
    /\ pc[p] = "give_channel_get"
    /\ loc' = [loc EXCEPT ![p].channel_doc =
                  DocGet(chans, DocId(call[p].g, call[p].c))]
    /\ pc' = [pc EXCEPT ![p] = "give_channel_write"]
    /\ UNCHANGED <<reps, chans, last, pre, undo, overlap, asked, granted, revoked,
                   nops, call>>
    /\ UNCHANGED cmdvars

\* main.py:177 / 195  channel_ref.set(...) or channel_ref.update(...); return True
GiveChannelWrite(p) ==
    /\ pc[p] = "give_channel_write"
    /\ chans' = give_rep_channel_write(chans, call[p], loc[p].channel_doc)
    /\ granted' = [granted EXCEPT ![DocId(call[p].g, call[p].u)] = @ + 1]
    /\ Return(p)
    /\ UNCHANGED <<reps, last, pre, undo, overlap, asked, revoked, nops>>
    /\ UNCHANGED cmdvars

\* FirebaseManager.give_rep: the transaction is one step of the store
GiveTransaction(p) ==
    \E g \in Guilds, u \in Users, c \in Channels, n \in Names :
        LET a == Args(g, u, c, n, GiverOf(p))
            r == fm_give_rep(Store, a, "never")
        IN  /\ Begin(p)
            /\ reps' = r.reps
            /\ chans' = r.chans
            /\ granted' = IF r.ok THEN [granted EXCEPT ![DocId(g, u)] = @ + 1]
                          ELSE granted
            /\ UNCHANGED <<last, pre, undo, overlap, asked, revoked, pc, call, loc>>
            /\ UNCHANGED cmdvars

\* remove_rep: user_doc = user_ref.get() and the early returns
RemoveUserGet(p) ==
    \E g \in Guilds, u \in Users, c \in Channels \cup {None} :
        LET user_doc == DocGet(reps, DocId(g, u))
        IN  /\ Begin(p)
            /\ IF remove_rep_check(user_doc, c)
               THEN /\ call' = [call EXCEPT ![p] = Args(g, u, c, None, None)]
                    /\ loc' = [loc EXCEPT ![p].user_doc = user_doc]
                    /\ pc' = [pc EXCEPT ![p] =
                                 IF c # None THEN "rm_channel_get"
                                 ELSE "rm_user_write"]
               ELSE UNCHANGED <<pc, call, loc>>
            /\ overlap' = (overlap \/ \E q \in Clients \ {p} : InGive(q))
            /\ UNCHANGED <<reps, chans, last, pre, undo, asked, granted, revoked>>
            /\ UNCHANGED cmdvars

\* remove_rep: channel_doc = channel_ref.get()
RemoveChannelGet(p) ==
    /\ pc[p] = "rm_channel_get"
    /\ LET channel_doc == DocGet(chans, DocId(call[p].g, call[p].c))
       IN  /\ loc' = [loc EXCEPT ![p].channel_doc = channel_doc]
           /\ pc' = [pc EXCEPT ![p] =
                        IF remove_rep_touches_channel(call[p], channel_doc)
                        THEN "rm_channel_write" ELSE "rm_user_write"]
    /\ UNCHANGED <<reps, chans, last, pre, undo, overlap, asked, granted, revoked,
                   nops, call>>
    /\ UNCHANGED cmdvars

\* remove_rep: channel_ref.update({'users', 'total_reps'})
RemoveChannelWrite(p) ==
    /\ pc[p] = "rm_channel_write"
    /\ chans' = remove_rep_channel_write(chans, call[p], loc[p].channel_doc)
    /\ pc' = [pc EXCEPT ![p] = "rm_user_write"]
    /\ UNCHANGED <<reps, last, pre, undo, overlap, asked, granted, revoked, nops,
                   call, loc>>
    /\ UNCHANGED cmdvars

\* remove_rep: user_ref.update(...); return True
RemoveUserWrite(p) ==
    /\ pc[p] = "rm_user_write"
    /\ reps' = remove_rep_user_write(reps, call[p], loc[p].user_doc)
    /\ revoked' = [revoked EXCEPT ![DocId(call[p].g, call[p].u)] = @ + 1]
    /\ Return(p)
    /\ UNCHANGED <<chans, last, pre, undo, overlap, asked, granted, nops>>
    /\ UNCHANGED cmdvars

NextConc ==
    \E p \in Clients :
        \/ GiveUserGet(p)
        \/ GiveUserWrite(p)
        \/ GiveChannelGet(p)
        \/ GiveChannelWrite(p)
        \/ GiveTransaction(p)
        \/ RemoveUserGet(p)
        \/ RemoveChannelGet(p)
        \/ RemoveChannelWrite(p)
        \/ RemoveUserWrite(p)

SpecConc == Init /\ [][NextConc]_vars

AllIdle == \A p \in Clients : pc[p] = "idle"

(* --------------------------- cooldown tracker -------------------------- *)

\* COOLDOWN_SECONDS = 60 (main.py:41, cogs/reputation.py:22)
COOLDOWN_SECONDS == 60

\* Timestamps are floats: the clock is read in ticks, TicksPerSecond to the
\* second, so that two readings can lie within the same second.
TicksPerSecond == 2

\* ticks the clock runs beyond one cooldown window
MaxExtraTicks == 4
MaxNow == COOLDOWN_SECONDS * TicksPerSecond + MaxExtraTicks

\* is_on_cooldown with the window's last instant included
is_on_cooldown_inclusive(cd, user_id, t) ==
    IF user_id \notin DOMAIN cd THEN FALSE
    ELSE LET last_time == cd[user_id]
         IN (t - last_time) <= COOLDOWN_SECONDS * TicksPerSecond

\* is_on_cooldown(user_id) on the map cd at clock reading t
is_on_cooldown(cd, user_id, t) ==
    IF user_id \notin DOMAIN cd THEN FALSE
    ELSE LET last_time == cd[user_id]
         IN (t - last_time) < COOLDOWN_SECONDS * TicksPerSecond

\* get_cooldown_remaining that rounds the elapsed time up to whole seconds
get_cooldown_remaining_rounds_up(cd, user_id, t) ==
    IF user_id \notin DOMAIN cd THEN 0
    ELSE LET last_time == cd[user_id]
             elapsed == t - last_time
         IN Max(0, COOLDOWN_SECONDS
                     - ((elapsed + TicksPerSecond - 1) \div TicksPerSecond))

\* get_cooldown_remaining(user_id): int(elapsed) cuts the elapsed time to
\* whole seconds
get_cooldown_remaining(cd, user_id, t) ==
    IF user_id \notin DOMAIN cd THEN 0
    ELSE LET last_time == cd[user_id]
             elapsed == t - last_time
         IN Max(0, COOLDOWN_SECONDS - (elapsed \div TicksPerSecond))

\* ", ".join(parts)
RECURSIVE join(_, _)
join(sep, parts) ==
    IF parts = <<>> THEN ""
    ELSE IF Len(parts) = 1 THEN parts[1]
    ELSE parts[1] \o sep \o join(sep, Tail(parts))

\* f"{n} {unit}{'s' if n > 1 else ''}"
unit_part(n, unit) ==
    ToString(n) \o " " \o unit \o (IF n > 1 THEN "s" ELSE "")

\* format_cooldown that lists the seconds beside the hours as well
format_cooldown_seconds_always(seconds0) ==
    LET minutes0 == seconds0 \div 60
        seconds == seconds0 % 60
        hours == minutes0 \div 60
        minutes == minutes0 % 60
    IN  join(", ",
             (IF hours > 0 THEN <<unit_part(hours, "hour")>> ELSE <<>>)
             \o (IF minutes > 0 THEN <<unit_part(minutes, "minute")>> ELSE <<>>)
             \o (IF seconds > 0
                 THEN <<unit_part(seconds, "second")>> ELSE <<>>))

\* format_cooldown(seconds): divmod by 60 twice, then the parts
format_cooldown(seconds0) ==
    LET minutes0 == seconds0 \div 60
        seconds == seconds0 % 60
        hours == minutes0 \div 60
        minutes == minutes0 % 60
    IN  join(", ",
             (IF hours > 0 THEN <<unit_part(hours, "hour")>> ELSE <<>>)
             \o (IF minutes > 0 THEN <<unit_part(minutes, "minute")>> ELSE <<>>)
             \o (IF seconds > 0 /\ ~(hours # 0)
                 THEN <<unit_part(seconds, "second")>> ELSE <<>>))

\* update_cooldown that keeps the timestamp of a giver already recorded
update_cooldown_keep_first(cd, user_id, t) ==
    [x \in (DOMAIN cd) \cup {user_id} |-> IF x \in DOMAIN cd THEN cd[x] ELSE t]

\* update_cooldown(user_id): rep_cooldowns[user_id] = now
update_cooldown(cd, user_id, t) ==
    [x \in (DOMAIN cd) \cup {user_id} |-> IF x = user_id THEN t ELSE cd[x]]

\* the longest duration formatted, in seconds: 2 hours, 2 minutes, 2 seconds
MaxSeconds == 7322

\* the state of the ledger handlers of Spec and SpecConc
ledgervars == <<reps, chans, last, pre, undo, overlap, asked, granted, revoked,
                nops, pc, call, loc, inserted, view>>

(* ------------- SpecCooldown: the cooldown map and the clock ------------ *)

\* time passes: by less than a second, or by a second
Tick ==
    \E d \in {1, TicksPerSecond} :
        /\ now + d <= MaxNow
        /\ now' = now + d
        /\ UNCHANGED <<site, rep_cooldowns, ev, log>>
        /\ UNCHANGED ledgervars

\* update_cooldown(user_id) at the present clock reading
UpdateCooldown ==
    \E u \in Givers :
        /\ rep_cooldowns' = update_cooldown(rep_cooldowns, u, now)
        /\ ev' = [kind |-> "update_cooldown", u |-> u, t |-> now,
                  had |-> u \in DOMAIN rep_cooldowns]
        /\ UNCHANGED <<site, now, log>>
        /\ UNCHANGED ledgervars

NextCooldown == Tick \/ UpdateCooldown

SpecCooldown == Init /\ [][NextCooldown]_vars

(* ------------- SpecFormat: one duration, formatted once ---------------- *)

InitFormat ==
    \E d \in 0..MaxSeconds :
        /\ reps = <<>>
        /\ chans = <<>>
        /\ last = Ran("none", "none", NoArgs, "never", FALSE)
        /\ pre = [reps |-> <<>>, chans |-> <<>>]
        /\ undo = NoUndo
        /\ overlap = FALSE
        /\ asked = [id \in UserIds |-> 0]
        /\ granted = [id \in UserIds |-> 0]
        /\ revoked = [id \in UserIds |-> 0]
        /\ nops = 0
        /\ pc = [p \in Clients |-> "idle"]
        /\ call = [p \in Clients |-> NoArgs]
        /\ loc = [p \in Clients |-> NoLocals]
        /\ site = "main"
        /\ rep_cooldowns = <<>>
        /\ now = 0
        /\ ev = [kind |-> "duration", seconds |-> d]
        /\ log = {}
        /\ inserted = NoKeys
        /\ view = NoView

\* remaining_str = format_cooldown(remaining)
FormatCooldown ==
    /\ ev.kind = "duration"
    /\ ev' = [kind |-> "format_cooldown", seconds |-> ev.seconds,
              text |-> format_cooldown(ev.seconds)]
    /\ UNCHANGED <<site, rep_cooldowns, now, log>>
    /\ UNCHANGED ledgervars

NextFormat == FormatCooldown

SpecFormat == InitFormat /\ [][NextFormat]_vars

(* --------------------------- trigger detector -------------------------- *)

\* longest text enumerated character by character
MaxLen == 4

\* A str is the sequence of its characters.
LowerLetters == {"a", "b", "c", "d", "e", "f", "g", "h", "i", "j", "k", "l", "m",
                 "n", "o", "p", "q", "r", "s", "t", "u", "v", "w", "x", "y", "z"}
UpperLetters == {"I", "T", "Y"}
Digits == {"1"}
Spaces == {" "}

\* str.lower(), str.isalnum(), str.isspace() of one character
lower_char(ch) ==
    IF ch = "I" THEN "i" ELSE IF ch = "T" THEN "t" ELSE IF ch = "Y" THEN "y" ELSE ch
isalnum(ch) == ch \in LowerLetters \cup UpperLetters \cup Digits
isspace(ch) == ch \in Spaces

\* content.lower()
lower(content) == [i \in 1..Len(content) |-> lower_char(content[i])]

\* the characters of s from position pos (counted from 0) are those of sub
occurs_at(s, sub, pos) ==
    /\ pos >= 0
    /\ pos + Len(sub) <= Len(s)
    /\ \A k \in 1..Len(sub) : s[pos + k] = sub[k]

\* s.find(sub, start): the least position from start on, or -1
find(s, sub, start) ==
    IF \E pos \in start..Len(s) : occurs_at(s, sub, pos)
    THEN CHOOSE pos \in start..Len(s) :
             /\ occurs_at(s, sub, pos)
             /\ \A q \in start..(pos - 1) : ~occurs_at(s, sub, q)
    ELSE -1

\* sub in s
contains(s, sub) == find(s, sub, 0) # -1

\* rep_triggers of main.py, and of cogs/reputation.py and rep_bot.py
main_rep_triggers ==
    << <<"t","h","a","n","k","s">>, <<"t","y">>, <<"t","y","s","m">>,
       <<"t","h","a","n","k"," ","y","o","u">>,
       <<"a","p","p","r","e","c","i","a","t","e","d">>, <<"t","h","x">> >>
cog_rep_triggers ==
    << <<"t","h","a","n","k","s">>, <<"t","y">>, <<"t","y","s","m">>,
       <<"t","h","a","n","k"," ","y","o","u">>,
       <<"a","p","p","r","e","c","i","a","t","e","d">> >>

\* the while loop of contains_trigger_word for one trigger, from start_pos,
\* with the test of the character after the occurrence left out
RECURSIVE trigger_loop_no_after(_, _, _)
trigger_loop_no_after(content_lower, trigger, start_pos) ==
    LET pos == find(content_lower, trigger, start_pos)
        before_pos == pos - 1
        before_ok == \/ before_pos < 0
                     \/ isspace(content_lower[before_pos + 1])
                     \/ ~isalnum(content_lower[before_pos + 1])
    IN  IF pos = -1 THEN FALSE
        ELSE IF before_ok THEN TRUE
        ELSE trigger_loop_no_after(content_lower, trigger, pos + 1)

\* the while loop of contains_trigger_word for one trigger, from start_pos
RECURSIVE trigger_loop(_, _, _)
trigger_loop(content_lower, trigger, start_pos) ==
    LET pos == find(content_lower, trigger, start_pos)
        before_pos == pos - 1
        after_pos == pos + Len(trigger)
        before_ok == \/ before_pos < 0
                     \/ isspace(content_lower[before_pos + 1])
                     \/ ~isalnum(content_lower[before_pos + 1])
        after_ok == \/ after_pos >= Len(content_lower)
                    \/ isspace(content_lower[after_pos + 1])
                    \/ ~isalnum(content_lower[after_pos + 1])
    IN  IF pos = -1 THEN FALSE
        ELSE IF before_ok /\ after_ok THEN TRUE
        ELSE trigger_loop(content_lower, trigger, pos + 1)

\* contains_trigger_word(content) of main.py
contains_trigger_word(content) ==
    LET content_lower == lower(content)
    IN \E i \in 1..Len(main_rep_triggers) :
           trigger_loop(content_lower, main_rep_triggers[i], 0)

\* any(trigger in content_lower for trigger in self.rep_triggers) of
\* cogs/reputation.py and rep_bot.py
any_trigger_in(content) ==
    LET content_lower == lower(content)
    IN \E i \in 1..Len(cog_rep_triggers) :
           contains(content_lower, cog_rep_triggers[i])

\* the programs: main.py, and the cog (rep_bot.py detects triggers and calls
\* a transactional give_rep as the cog does)
Sites == {"main", "cog"}

\* the trigger test of on_message at each call site
message_has_trigger(s, content) ==
    IF s = "main" THEN contains_trigger_word(content) ELSE any_trigger_in(content)
rep_triggers_of(s) == IF s = "main" THEN main_rep_triggers ELSE cog_rep_triggers

(* --------------- SpecTrigger: the detector on bounded texts ------------ *)

Alphabet == {"t", "y", "h", "x", "p", "T", "1", " ", "!"}

party_text ==
    <<"I"," ","w","e","n","t"," ","t","o"," ","a"," ","p","a","r","t","y">>
ty_text ==
    <<"t","y"," ","f","o","r"," ","t","h","e"," ","h","e","l","p">>

Texts == UNION {[1..n -> Alphabet] : n \in 0..MaxLen} \cup {party_text, ty_text}

\* the state before the first event, in either program
InitSite ==
    /\ reps = <<>>
    /\ chans = <<>>
    /\ last = Ran("none", "none", NoArgs, "never", FALSE)
    /\ pre = [reps |-> <<>>, chans |-> <<>>]
    /\ undo = NoUndo
    /\ overlap = FALSE
    /\ asked = [id \in UserIds |-> 0]
    /\ granted = [id \in UserIds |-> 0]
    /\ revoked = [id \in UserIds |-> 0]
    /\ nops = 0
    /\ pc = [p \in Clients |-> "idle"]
    /\ call = [p \in Clients |-> NoArgs]
    /\ loc = [p \in Clients |-> NoLocals]
    /\ site \in Sites
    /\ rep_cooldowns = <<>>
    /\ now = 0
    /\ ev = NoEvent
    /\ log = {}
    /\ inserted = NoKeys
    /\ view = NoView

\* a message has arrived, with any of the texts as its content
InitTrigger ==
    \E s \in Sites, content \in Texts :
        /\ reps = <<>>
        /\ chans = <<>>
        /\ last = Ran("none", "none", NoArgs, "never", FALSE)
        /\ pre = [reps |-> <<>>, chans |-> <<>>]
        /\ undo = NoUndo
        /\ overlap = FALSE
        /\ asked = [id \in UserIds |-> 0]
        /\ granted = [id \in UserIds |-> 0]
        /\ revoked = [id \in UserIds |-> 0]
        /\ nops = 0
        /\ pc = [p \in Clients |-> "idle"]
        /\ call = [p \in Clients |-> NoArgs]
        /\ loc = [p \in Clients |-> NoLocals]
        /\ site = s
        /\ rep_cooldowns = <<>>
        /\ now = 0
        /\ ev = [kind |-> "message", content |-> content]
        /\ log = {}
        /\ inserted = NoKeys
        /\ view = NoView

\* on_message applies its trigger test to the content of the message
Detect ==
    /\ ev.kind = "message"
    /\ ev' = [kind |-> "trigger", content |-> ev.content,
              result |-> message_has_trigger(site, ev.content)]
    /\ UNCHANGED <<site, rep_cooldowns, now, log>>
    /\ UNCHANGED ledgervars

NextTrigger == Detect

SpecTrigger == InitTrigger /\ [][NextTrigger]_vars

(* ------------------ event handlers: commands and messages -------------- *)

\* events handled, clock advances included, in a behaviour of SpecCmd,
\* SpecMsg or SpecRevoke
MaxEvents == 3
\* largest amount asked of the remove_rep command
MaxAmount == 2

\* accounts with user.bot set
Bots == {"b1"}
\* ADMIN_USERS (main.py:35): the configured admin identities
ADMIN_USERS == {"admin1"}

\* message.channel.name / interaction.channel.name of a channel
channel_name(c) == IF c = "c1" THEN "general" ELSE "help"

\* give_rep as each program calls it: the function of main.py, or
\* FirebaseManager.give_rep (self.firebase.give_rep) in the cog
site_give_rep(s, S, a, raise) ==
    IF s = "main" THEN main_give_rep(S, a, raise) ELSE fm_give_rep(S, a, raise)

\* the result of an event handler: the store, the cooldown map, what was
\* answered, the ledger calls made with their results (in order), and the
\* number of update_cooldown calls
Handled(r, c, cd, outcome, calls, nrec) ==
    [reps |-> r, chans |-> c, cd |-> cd, outcome |-> outcome, calls |-> calls,
     nrec |-> nrec]

\* grant_validation with the cooldown tested first
grant_validation_cooldown_first(cd, t, giver, user) ==
    IF is_on_cooldown(cd, giver, t) THEN "cooldown"
    ELSE IF user = giver THEN "self"
    ELSE IF user \in Bots THEN "bot"
    ELSE "ok"

\* grant_validation without the test of user.bot
grant_validation_no_bot(cd, t, giver, user) ==
    IF user = giver THEN "self"
    ELSE IF is_on_cooldown(cd, giver, t) THEN "cooldown"
    ELSE "ok"

\* the three checks of give_rep_command, in their order (main.py:803-826)
grant_validation(cd, t, giver, user) ==
    IF user = giver THEN "self"
    ELSE IF user \in Bots THEN "bot"
    ELSE IF is_on_cooldown(cd, giver, t) THEN "cooldown"
    ELSE "ok"

\* command_record that records the cooldown whatever give_rep returned
command_record_always(cd, giver, t, result) == update_cooldown(cd, giver, t)

\* if result: update_cooldown(interaction.user.id)   (main.py:839-841)
command_record(cd, giver, t, result) ==
    IF result THEN update_cooldown(cd, giver, t) ELSE cd

\* give_rep_command after "await interaction.response.defer()"
\* (main.py:827-850): give_rep, and update_cooldown if it returned True; cd
\* and t are the cooldown map and the clock when the task goes on
give_rep_deferred(s, S, cd, t, g, c, giver, user, raise) ==
    LET a == Args(g, user, c, channel_name(c), giver)
        r == site_give_rep(s, S, a, raise)
    IN  IF r.exc THEN Handled(r.reps, r.chans, cd, "exception", <<>>, 0)
        ELSE Handled(r.reps, r.chans, command_record(cd, giver, t, r.ok),
                     IF r.ok THEN "granted" ELSE "failed",
                     <<[u |-> user, ok |-> r.ok]>>,
                     IF r.ok THEN 1 ELSE 0)

\* give_rep_command (main.py:793-850), ReputationCog.give_rep, when no other
\* task runs while it awaits the defer
give_rep_command(s, S, cd, t, g, c, giver, user, raise) ==
    LET v == grant_validation(cd, t, giver, user)
    IN  IF v # "ok" THEN Handled(S.reps, S.chans, cd, v, <<>>, 0)
        ELSE give_rep_deferred(s, S, cd, t, g, c, giver, user, raise)

\* the elements of a list
Range(list) == {list[i] : i \in 1..Len(list)}

\* valid_mentions = [user for user in message.mentions if user.id !=
\* message.author.id and not user.bot]: a list, in the order of
\* message.mentions (main.py:723-726)
valid_mentions(author, mentions) ==
    LET keep(user) == user # author /\ user \notin Bots
    IN  SelectSeq(mentions, keep)

\* message_filter with the mentions filtered before the cooldown is tested
message_filter_eligible_first(s, cd, t, author, g, mentions, content) ==
    IF author \in Bots THEN "ignored"
    ELSE IF g = None THEN "ignored"
    ELSE IF mentions = <<>> THEN "ignored"
    ELSE IF ~message_has_trigger(s, content) THEN "ignored"
    ELSE IF valid_mentions(author, mentions) = <<>> THEN "ignored"
    ELSE IF is_on_cooldown(cd, author, t) THEN "cooldown"
    ELSE "ok"

\* the early returns of on_message, in their order (main.py:688-732):
\* "cooldown" sends the cooldown message, "ignored" returns silently
message_filter(s, cd, t, author, g, mentions, content) ==
    IF author \in Bots THEN "ignored"
    ELSE IF g = None THEN "ignored"
    ELSE IF mentions = <<>> THEN "ignored"
    ELSE IF ~message_has_trigger(s, content) THEN "ignored"
    ELSE IF is_on_cooldown(cd, author, t) THEN "cooldown"
    ELSE IF valid_mentions(author, mentions) = <<>> THEN "ignored"
    ELSE "ok"

\* grant_each that stops at the first give_rep that returns False
RECURSIVE grant_each_stops(_, _, _, _, _, _, _)
grant_each_stops(s, S, g, c, author, todo, raise_of) ==
    IF todo = <<>>
    THEN [reps |-> S.reps, chans |-> S.chans, calls |-> <<>>, raised |-> FALSE]
    ELSE LET user == Head(todo)
             a == Args(g, user, c, channel_name(c), author)
             result == site_give_rep(s, S, a, raise_of[user])
             rest == grant_each_stops(s, [reps |-> result.reps, chans |-> result.chans],
                                      g, c, author, Tail(todo), raise_of)
         IN  IF ~result.ok
             THEN [reps |-> result.reps, chans |-> result.chans,
                   calls |-> <<[u |-> user, ok |-> FALSE]>>,
                   raised |-> store_error(result)]
             ELSE [rest EXCEPT !.calls = <<[u |-> user, ok |-> TRUE]>> \o @]

\* for user in valid_mentions: result = await give_rep(...), in the order of
\* the list (main.py:737-749); calls holds the calls in the order made, and
\* raised tells that a store call raised inside one of them
RECURSIVE grant_each(_, _, _, _, _, _, _)
grant_each(s, S, g, c, author, todo, raise_of) ==
    IF todo = <<>>
    THEN [reps |-> S.reps, chans |-> S.chans, calls |-> <<>>, raised |-> FALSE]
    ELSE LET user == Head(todo)
             a == Args(g, user, c, channel_name(c), author)
             result == site_give_rep(s, S, a, raise_of[user])
             rest == grant_each(s, [reps |-> result.reps, chans |-> result.chans],
                                g, c, author, Tail(todo), raise_of)
         IN  [rest EXCEPT !.calls = <<[u |-> user, ok |-> result.ok]>> \o @,
                          !.raised = @ \/ store_error(result)]

\* successful_mentions
successful(calls) == {calls[i].u : i \in {j \in 1..Len(calls) : calls[j].ok}}

\* message_record that records the cooldown once for every successful grant
message_record_each(cd, author, t, calls) ==
    [cd |-> IF successful(calls) # {} THEN update_cooldown(cd, author, t) ELSE cd,
     nrec |-> Cardinality(successful(calls))]

\* if successful_mentions: ... update_cooldown(message.author.id)
\* (main.py:752-760)
message_record(cd, author, t, calls) ==
    IF successful(calls) # {}
    THEN [cd |-> update_cooldown(cd, author, t), nrec |-> 1]
    ELSE [cd |-> cd, nrec |-> 0]

\* on_message up to "await message.channel.send(...)" (main.py:688-754):
\* the early returns and the grants; the cooldown is not recorded yet
message_grants(s, S, cd, t, g, c, author, mentions, content, raise_of) ==
    LET f == message_filter(s, cd, t, author, g, mentions, content)
        r == grant_each(s, S, g, c, author, valid_mentions(author, mentions),
                        raise_of)
    IN  IF f # "ok" THEN Handled(S.reps, S.chans, cd, f, <<>>, 0)
        ELSE Handled(r.reps, r.chans, cd,
                     IF successful(r.calls) # {} THEN "granted" ELSE "failed",
                     r.calls, 0)

\* a store call raised inside one of the give_rep calls of on_message
message_raises(s, S, cd, t, g, c, author, mentions, content, raise_of) ==
    /\ message_filter(s, cd, t, author, g, mentions, content) = "ok"
    /\ grant_each(s, S, g, c, author, valid_mentions(author, mentions),
                  raise_of).raised

\* on_message (main.py:685-760), ReputationCog.on_message, when no other
\* task runs while it awaits the send
on_message(s, S, cd, t, g, c, author, mentions, content, raise_of) ==
    LET h == message_grants(s, S, cd, t, g, c, author, mentions, content,
                            raise_of)
        rec == message_record(cd, author, t, h.calls)
    IN  [h EXCEPT !.cd = rec.cd, !.nrec = rec.nrec]

\* remove_loop that goes on after a remove_rep that returns False
RECURSIVE remove_loop_goes_on(_, _, _, _, _, _)
remove_loop_goes_on(S, a, i, amount, raise_at, raise) ==
    IF i > amount
    THEN [reps |-> S.reps, chans |-> S.chans, calls |-> <<>>, exc |-> FALSE,
          raised |-> FALSE]
    ELSE LET result == remove_rep(S, a, IF i = raise_at THEN raise ELSE "never")
             rest == remove_loop_goes_on([reps |-> result.reps, chans |-> result.chans],
                                         a, i + 1, amount, raise_at, raise)
         IN  [rest EXCEPT !.calls = <<result.ok>> \o @,
                          !.raised = @ \/ (i = raise_at /\ remove_rep_raises(S, a, raise))]

\* for _ in range(amount): result = await remove_rep(...); break at the first
\* False (main.py:1031-1041); i is the number of the call, and the call
\* numbered raise_at meets a store error; raised: a store call raised
RECURSIVE remove_loop(_, _, _, _, _, _)
remove_loop(S, a, i, amount, raise_at, raise) ==
    IF i > amount
    THEN [reps |-> S.reps, chans |-> S.chans, calls |-> <<>>, exc |-> FALSE,
          raised |-> FALSE]
    ELSE LET hit == i = raise_at /\ remove_rep_raises(S, a, raise)
             result == remove_rep(S, a, IF i = raise_at THEN raise ELSE "never")
             rest == remove_loop([reps |-> result.reps, chans |-> result.chans],
                                 a, i + 1, amount, raise_at, raise)
         IN  IF result.exc
             THEN [reps |-> result.reps, chans |-> result.chans,
                   calls |-> <<>>, exc |-> TRUE, raised |-> hit]
             ELSE IF ~result.ok
             THEN [reps |-> result.reps, chans |-> result.chans,
                   calls |-> <<FALSE>>, exc |-> FALSE, raised |-> hit]
             ELSE [rest EXCEPT !.calls = <<TRUE>> \o @]

\* success_count
success_count(calls) == Cardinality({i \in 1..Len(calls) : calls[i]})

\* revoke_validation with the amount tested before the privilege
revoke_validation_amount_first(invoker, administrator, amount) ==
    IF amount < 1 THEN "bad_amount"
    ELSE IF invoker \notin ADMIN_USERS /\ ~administrator THEN "denied"
    ELSE "ok"

\* the two checks of remove_rep_command, in their order (main.py:1009-1023)
revoke_validation(invoker, administrator, amount) ==
    IF invoker \notin ADMIN_USERS /\ ~administrator THEN "denied"
    ELSE IF amount < 1 THEN "bad_amount"
    ELSE "ok"

\* remove_rep_command after "await interaction.response.defer()"
\* (main.py:1025-1054): the loop, and the answer that reports success_count
remove_rep_deferred(S, g, user, c, amount, raise_at, raise) ==
    LET r == remove_loop(S, Args(g, user, c, None, None), 1, amount, raise_at, raise)
    IN  IF r.exc
        THEN [reps |-> r.reps, chans |-> r.chans, outcome |-> "exception",
              calls |-> r.calls, reported |-> 0, raised |-> r.raised]
        ELSE [reps |-> r.reps, chans |-> r.chans,
              outcome |-> IF success_count(r.calls) > 0 THEN "removed" ELSE "nothing",
              calls |-> r.calls, reported |-> success_count(r.calls),
              raised |-> r.raised]

\* remove_rep_command (main.py:1001-1054), ReputationCog.remove_rep, when no
\* other task runs while it awaits the defer
remove_rep_command(S, invoker, administrator, g, user, c, amount, raise_at, raise) ==
    LET v == revoke_validation(invoker, administrator, amount)
    IN  IF v # "ok"
        THEN [reps |-> S.reps, chans |-> S.chans, outcome |-> v,
              calls |-> <<>>, reported |-> 0, raised |-> FALSE]
        ELSE remove_rep_deferred(S, g, user, c, amount, raise_at, raise)

(* ---- SpecCmd, SpecMsg, SpecRevoke, SpecCmdConc: the event handlers ----- *)

\* Each event is handled by a task of its own; a task runs until it awaits
\* the gateway (interaction.response.defer, message.channel.send), where
\* another task may run. give_rep and remove_rep make blocking store calls
\* and never yield, so "await give_rep(...)" runs through. A handler that
\* passes its checks is therefore two steps, one up to its await and one
\* after it. SpecCmd is the give_rep command and the clock, SpecMsg on_message
\* and the clock, SpecRevoke the give_rep and remove_rep commands,
\* SpecCmdConc the give_rep command, on_message and the clock.

\* the channel the events arrive in
EventChannels == {"c1"}

\* the contents of messages: "ty", "party", "hi"
MsgTexts == {<<"t","y">>, <<"p","a","r","t","y">>, <<"h","i">>}

\* message.mentions is a list of distinct users: no mention, one member,
\* the author, the bot, the author and the bot, and the bot, a member, the
\* author and the other member
MentionLists ==
    {<<>>, <<"u1">>, <<"u3">>, <<"b1">>, <<"u3", "b1">>,
     <<"b1", "u2", "u3", "u1">>}

\* the messages that arrive: those of the member u3 in a guild ("ty" with
\* every list of mentions, the other texts with a member or with the author
\* and the bot), one of a bot, and one outside a guild
Messages ==
    [author : {"u3"}, guild : Guilds, mentions : MentionLists,
     content : {<<"t","y">>}]
    \cup [author : {"u3"}, guild : Guilds,
          mentions : {<<"u1">>, <<"u3", "b1">>}, content : MsgTexts]
    \cup {[author |-> "b1", guild |-> "g1", mentions |-> <<"u1">>,
           content |-> <<"t","y">>],
          [author |-> "u3", guild |-> None, mentions |-> <<"u1">>,
           content |-> <<"t","y">>]}

\* who invokes the remove_rep command: (interaction.user.id,
\* interaction.user.guild_permissions.administrator)
RevokeCallers == {<<"admin1", FALSE>>, <<"u3", TRUE>>, <<"u3", FALSE>>}

\* the remove_rep commands that arrive, as (caller, channel, amount): those of
\* the listed admin with and without a channel and with every amount, those
\* of the other callers without a channel and with the amounts 0 and 1
RevokeCommands ==
    ({<<"admin1", FALSE>>} \X (EventChannels \cup {None}) \X (0..MaxAmount))
    \cup ((RevokeCallers \ {<<"admin1", FALSE>>}) \X {None} \X {0, 1})

\* the clock advances between events: by a tick, to the last tick of a
\* cooldown window, or by a whole window
WaitSteps == {1, COOLDOWN_SECONDS * TicksPerSecond - 1,
              COOLDOWN_SECONDS * TicksPerSecond}

BeginEvent ==
    /\ nops < MaxEvents
    /\ nops' = nops + 1

eventframe == <<last, pre, undo, overlap, asked, granted, revoked, pc, call, loc,
                inserted, view>>

taskframe == <<last, pre, undo, overlap, asked, granted, revoked, loc, inserted,
               view>>

\* time passes between the steps of the tasks
Wait ==
    /\ BeginEvent
    /\ \E d \in WaitSteps :
        /\ now + d <= MaxNow
        /\ now' = now + d
    /\ UNCHANGED <<reps, chans, site, rep_cooldowns, ev, log>>
    /\ UNCHANGED eventframe

\* a task begins in the first client that handles no event
FreeClient(p) ==
    /\ pc[p] = "idle"
    /\ p = "p2" => pc["p1"] # "idle"

\* the store errors met by the grants of a message: one choice for each valid
\* mention when the message passes the early returns
RaiseChoices(m) ==
    IF message_filter(site, rep_cooldowns, now, m.author, m.guild, m.mentions,
                      m.content) = "ok"
    THEN [Range(valid_mentions(m.author, m.mentions)) -> Raises]
    ELSE {[u \in Range(valid_mentions(m.author, m.mentions)) |-> "never"]}

\* no interaction or message is being handled by the client
NoTask == [by |-> None, a |-> NoArgs, e |-> 0]

\* the successful grants of one event, for the log
Granted(e, by, t, calls) ==
    {[e |-> e, by |-> by, u |-> calls[i].u, t |-> t] :
        i \in {j \in 1..Len(calls) : calls[j].ok}}

\* a store call raised while the event e, which has ended, was handled: the
\* except clause of one of its give_rep or remove_rep calls ran, on an error
\* of the store or, in FirebaseManager.give_rep, on the read that its
\* transaction refuses
StoreError(e) ==
    /\ e.kind \in {"give_rep_command", "remove_rep_command", "on_message"}
    /\ e.raised

\* a store call raised in the event that ended last before the step: e is
\* the record of that event, or of a task that has reached its await since
AfterError(e) ==
    IF e.kind \in {"give_rep_deferred", "remove_rep_deferred",
                   "on_message_sending"}
    THEN e.after_error
    ELSE StoreError(e)

\* give_rep_command up to "await interaction.response.defer()"
\* (main.py:799-827): the three checks; a rejected command is answered and
\* ends here
GiveRepCommand(p) ==
    /\ FreeClient(p)
    /\ BeginEvent
    /\ \E g \in Guilds, c \in EventChannels, giver \in Givers :
       \E user \in {"u1", giver} \cup Bots :
        LET v == grant_validation(rep_cooldowns, now, giver, user)
            e == [kind |-> IF v = "ok" THEN "give_rep_deferred"
                           ELSE "give_rep_command",
                  giver |-> giver, user |-> user, raise |-> "never",
                  raised |-> FALSE,
                  outcome |-> v, calls |-> <<>>, nrec |-> 0,
                  pre |-> Store, pre_cd |-> rep_cooldowns, t |-> now,
                  checked |-> [cd |-> rep_cooldowns, t |-> now],
                  after_error |-> AfterError(ev)]
        IN  /\ ev' = e
            /\ IF v = "ok"
               THEN /\ pc' = [pc EXCEPT ![p] = "cmd_deferred"]
                    /\ call' = [call EXCEPT ![p] =
                                   [by |-> giver, e |-> nops + 1,
                                    a |-> Args(g, user, c, channel_name(c), giver),
                                    checked |-> e.checked]]
               ELSE UNCHANGED <<pc, call>>
    /\ UNCHANGED <<reps, chans, site, rep_cooldowns, now, log>>
    /\ UNCHANGED taskframe

\* give_rep_command after the defer (main.py:831-850): give_rep, and
\* update_cooldown if it returned True, on the store, the cooldown map and the
\* clock as they are now
GiveRepResume(p) ==
    /\ pc[p] = "cmd_deferred"
    /\ \E raise \in Raises :
        LET task == call[p]
            r == give_rep_deferred(site, Store, rep_cooldowns, now, task.a.g,
                                   task.a.c, task.by, task.a.u, raise)
        IN  /\ reps' = r.reps
            /\ chans' = r.chans
            /\ rep_cooldowns' = r.cd
            /\ log' = log \cup Granted(task.e, task.by, now, r.calls)
            /\ ev' = [kind |-> "give_rep_command", giver |-> task.by,
                      user |-> task.a.u, raise |-> raise,
                      raised |-> store_error(site_give_rep(site, Store, task.a,
                                                           raise)),
                      outcome |-> r.outcome, calls |-> r.calls,
                      nrec |-> r.nrec, pre |-> Store, pre_cd |-> rep_cooldowns,
                      t |-> now, checked |-> task.checked,
                      after_error |-> AfterError(ev)]
    /\ pc' = [pc EXCEPT ![p] = "idle"]
    /\ call' = [call EXCEPT ![p] = NoTask]
    /\ UNCHANGED <<nops, site, now>>
    /\ UNCHANGED taskframe

\* on_message up to "await message.channel.send(...)" (main.py:688-754): the
\* early returns and the grants; a message with no successful grant ends here
\* ("await bot.process_commands(message)", main.py:697, comes before the
\* handler reads the cooldown map or the store)
OnMessage(p) ==
    /\ FreeClient(p)
    /\ BeginEvent
    /\ \E m \in Messages, c \in EventChannels :
       \E raise_of \in RaiseChoices(m) :
        LET r == message_grants(site, Store, rep_cooldowns, now, m.guild, c,
                                m.author, m.mentions, m.content, raise_of)
            e == [kind |-> IF r.outcome = "granted" THEN "on_message_sending"
                           ELSE "on_message",
                  author |-> m.author, guild |-> m.guild,
                  mentions |-> m.mentions,
                  trigger |-> message_has_trigger(site, m.content),
                  outcome |-> r.outcome, calls |-> r.calls, nrec |-> 0,
                  raised |-> message_raises(site, Store, rep_cooldowns, now,
                                            m.guild, c, m.author, m.mentions,
                                            m.content, raise_of),
                  pre_cd |-> rep_cooldowns, t |-> now,
                  checked |-> [cd |-> rep_cooldowns, t |-> now],
                  after_error |-> AfterError(ev)]
        IN  /\ reps' = r.reps
            /\ chans' = r.chans
            /\ log' = log \cup Granted(nops + 1, m.author, now, r.calls)
            /\ ev' = e
            /\ IF r.outcome = "granted"
               THEN /\ pc' = [pc EXCEPT ![p] = "msg_sent"]
                    /\ call' = [call EXCEPT ![p] =
                                   [by |-> m.author, e |-> nops + 1,
                                    a |-> NoArgs, rec |-> e]]
               ELSE UNCHANGED <<pc, call>>
    /\ UNCHANGED <<site, rep_cooldowns, now>>
    /\ UNCHANGED taskframe

\* on_message after the send (main.py:759): update_cooldown, on the
\* cooldown map and the clock as they are now
OnMessageResume(p) ==
    /\ pc[p] = "msg_sent"
    /\ LET task == call[p]
           rec == message_record(rep_cooldowns, task.by, now, task.rec.calls)
       IN  /\ rep_cooldowns' = rec.cd
           /\ ev' = [task.rec EXCEPT !.kind = "on_message", !.nrec = rec.nrec,
                                     !.pre_cd = rep_cooldowns, !.t = now,
                                     !.after_error = AfterError(ev)]
    /\ pc' = [pc EXCEPT ![p] = "idle"]
    /\ call' = [call EXCEPT ![p] = NoTask]
    /\ UNCHANGED <<reps, chans, nops, site, now, log>>
    /\ UNCHANGED taskframe

\* remove_rep_command up to "await interaction.response.defer()"
\* (main.py:1009-1025): the two checks; a rejected command is answered and
\* ends here
RemoveRepCommand(p) ==
    /\ FreeClient(p)
    /\ BeginEvent
    /\ \E g \in Guilds, cmd \in RevokeCommands :
        LET who == cmd[1]
            c == cmd[2]
            amount == cmd[3]
            v == revoke_validation(who[1], who[2], amount)
            e == [kind |-> IF v = "ok" THEN "remove_rep_deferred"
                           ELSE "remove_rep_command",
                  invoker |-> who[1], administrator |-> who[2],
                  user |-> DocId(g, "u1"), channel |-> c, amount |-> amount,
                  raised |-> FALSE, outcome |-> v, calls |-> <<>>,
                  reported |-> 0, pre |-> Store, pre_cd |-> rep_cooldowns,
                  t |-> now, after_error |-> AfterError(ev)]
        IN  /\ ev' = e
            /\ IF v = "ok"
               THEN /\ pc' = [pc EXCEPT ![p] = "revoke_deferred"]
                    /\ call' = [call EXCEPT ![p] =
                                   [by |-> who[1], e |-> nops + 1,
                                    a |-> Args(g, "u1", c, None, None),
                                    administrator |-> who[2],
                                    amount |-> amount]]
               ELSE UNCHANGED <<pc, call>>
    /\ UNCHANGED <<reps, chans, site, rep_cooldowns, now, log>>
    /\ UNCHANGED taskframe

\* remove_rep_command after the defer (main.py:1031-1054): the loop, on the
\* store as it is now; no call meets a store error, or the call numbered
\* fault[1] meets one before or after its first write
RemoveRepResume(p) ==
    /\ pc[p] = "revoke_deferred"
    /\ \E fault \in {<<0, "never">>}
                     \cup ((1..call[p].amount) \X (Raises \ {"never"})) :
        LET task == call[p]
            r == remove_rep_deferred(Store, task.a.g, task.a.u, task.a.c,
                                     task.amount, fault[1], fault[2])
        IN  /\ reps' = r.reps
            /\ chans' = r.chans
            /\ ev' = [kind |-> "remove_rep_command", invoker |-> task.by,
                      administrator |-> task.administrator,
                      user |-> DocId(task.a.g, task.a.u),
                      channel |-> task.a.c, amount |-> task.amount,
                      raised |-> r.raised,
                      outcome |-> r.outcome, calls |-> r.calls,
                      reported |-> r.reported, pre |-> Store,
                      pre_cd |-> rep_cooldowns, t |-> now,
                      after_error |-> AfterError(ev)]
    /\ pc' = [pc EXCEPT ![p] = "idle"]
    /\ call' = [call EXCEPT ![p] = NoTask]
    /\ UNCHANGED <<nops, site, rep_cooldowns, now, log>>
    /\ UNCHANGED taskframe

NextCmd ==
    \/ Wait
    \/ \E p \in Clients :
        \/ GiveRepCommand(p)
        \/ GiveRepResume(p)
SpecCmd == InitSite /\ [][NextCmd]_vars

NextMsg ==
    \/ Wait
    \/ \E p \in Clients :
        \/ OnMessage(p)
        \/ OnMessageResume(p)
SpecMsg == InitSite /\ [][NextMsg]_vars

NextRevoke ==
    \E p \in Clients :
        \/ GiveRepCommand(p)
        \/ GiveRepResume(p)
        \/ RemoveRepCommand(p)
        \/ RemoveRepResume(p)
SpecRevoke == InitSite /\ [][NextRevoke]_vars

NextCmdConc ==
    \/ Wait
    \/ \E p \in Clients :
        \/ GiveRepCommand(p)
        \/ GiveRepResume(p)
        \/ OnMessage(p)
        \/ OnMessageResume(p)
SpecCmdConc == InitSite /\ [][NextCmdConc]_vars

(* ------- SpecReject: the cooldown rejection reads the clock twice ------ *)

\* the cooldown branch of give_rep_command and on_message (main.py:815-817,
\* 711-713): is_on_cooldown reads the clock and is true, then
\* get_cooldown_remaining reads the clock again, at the same tick or at the
\* next, and format_cooldown makes the text of the rejection
CooldownRejection ==
    /\ BeginEvent
    /\ \E u \in Givers, d \in {0, 1} :
        /\ is_on_cooldown(rep_cooldowns, u, now)
        /\ now + d <= MaxNow
        /\ now' = now + d
        /\ LET remaining == get_cooldown_remaining(rep_cooldowns, u, now')
           IN  ev' = [kind |-> "cooldown_rejection", u |-> u, checked |-> now,
                      t |-> now', remaining |-> remaining,
                      remaining_str |-> format_cooldown(remaining)]
    /\ UNCHANGED <<reps, chans, site, rep_cooldowns, log>>
    /\ UNCHANGED eventframe

\* the clock advances between events, a giver's cooldown is recorded, a
\* giver on cooldown is rejected
NextReject == Wait \/ UpdateCooldown \/ CooldownRejection

SpecReject == Init /\ [][NextReject]_vars

(* ------------------------------ the queries ---------------------------- *)

\* A mapping read from a document is a dict whose keys are in the order in
\* which the store returns them; the store does not keep the order in which
\* the program inserted them. 'inserted' is a history of that insertion
\* order, for the channels of each user record and the users of each channel
\* record; no function of the program reads it.

\* the insertion order after a write of the program: a key the mapping had
\* keeps its place, a new key (channels[channel_id] = ..., users[user_id] = 1)
\* goes last
dict_keys(order, mapping) ==
    LET new == DOMAIN mapping \ {order[i] : i \in 1..Len(order)}
    IN  IF new = {} THEN order ELSE Append(order, CHOOSE k \in new : TRUE)

\* the insertion orders after a handler has left the store as S
inserted_after(K, S) ==
    [reps |-> [id \in DOMAIN S.reps |->
                  dict_keys(IF id \in DOMAIN K.reps THEN K.reps[id] ELSE <<>>,
                            S.reps[id].channels)],
     chans |-> [id \in DOMAIN S.chans |->
                  dict_keys(IF id \in DOMAIN K.chans THEN K.chans[id] ELSE <<>>,
                            S.chans[id].users)]]

Min(a, b) == IF a <= b THEN a ELSE b

\* list[start:stop]: an index below 0 counts from the end of the list, and
\* each index is brought into 0..len(list)
slice(list, start, stop) ==
    LET index(i) == IF i < 0 THEN Max(0, i + Len(list)) ELSE Min(i, Len(list))
    IN  IF index(start) >= index(stop) THEN <<>>
        ELSE SubSeq(list, index(start) + 1, index(stop))

\* list(mapping.items()) followed by list.sort(key=lambda x: x['count'],
\* reverse=True): items() gives the entries in the order of the keys of the
\* dict read from the store, which is the store's choice, and the sort is
\* stable, so the sorted list has the keys by non-increasing count and those
\* of equal count in the store's order. sorted_items gives every list of keys
\* the sort may leave.
RECURSIVE sorted_items(_, _)
sorted_items(counts, keys) ==
    IF keys = {} THEN {<<>>}
    ELSE LET top == {x \in keys : \A y \in keys : counts[x] >= counts[y]}
         IN  UNION {{<<x>> \o r : r \in sorted_items(counts, keys \ {x})} :
                    x \in top}

\* the record returned for a user with no document, or on a store error
zero_profile(g, u) ==
    [guild_id |-> g, user_id |-> u, count |-> 0, channels |-> <<>>,
     given_by |-> <<>>]

\* get_user_profile; raise: the store call raises
get_user_profile(S, g, u, raise) ==
    LET doc == DocGet(S.reps, DocId(g, u))
    IN  IF raise THEN zero_profile(g, u)
        ELSE IF ~doc.exists THEN zero_profile(g, u)
        ELSE doc.data

\* get_top_channels: the lists it may return, the profile's channels as a
\* list, sorted, cut to limit
get_top_channels(S, g, u, limit, raise) ==
    LET profile == get_user_profile(S, g, u, raise)
        channels == profile.channels
        counts == [c \in DOMAIN channels |-> channels[c].count]
        channel_list(order) ==
            [i \in 1..Len(order) |->
                [id |-> order[i], name |-> channels[order[i]].name,
                 count |-> channels[order[i]].count]]
    IN  {slice(channel_list(order), 0, limit) :
            order \in sorted_items(counts, DOMAIN channels)}

\* a query .where('guild_id', '==', g).order_by(field, DESCENDING).limit(k)
\* streams the documents of the guild by non-increasing field, at most k of
\* them; the order among documents of equal field is the store's choice.
\* ranked gives every list the query may stream from the documents ids.
RECURSIVE ranked(_, _, _, _)
ranked(coll, ids, field, k) ==
    IF ids = {} \/ k = 0 THEN {<<>>}
    ELSE LET top == {x \in ids : \A y \in ids : coll[x][field] >= coll[y][field]}
         IN  UNION {{<<coll[x]>> \o r : r \in ranked(coll, ids \ {x}, field, k - 1)} :
                    x \in top}

\* stream without the where clause
stream_any_guild(coll, g, field, limit) ==
    ranked(coll, DOMAIN coll, field, limit)

stream(coll, g, field, limit) ==
    ranked(coll, {id \in DOMAIN coll : coll[id].guild_id = g}, field, limit)

\* get_leaderboard: the lists it may return. With a channel_id, the users of
\* the channel document sorted and cut; without, the query on 'reps'.
get_leaderboard(S, g, limit, channel_id, raise) ==
    LET channel_doc == DocGet(S.chans, DocId(g, channel_id))
        users == channel_doc.data.users
        user_list(order) ==
            [i \in 1..Len(order) |->
                [user_id |-> order[i], count |-> users[order[i]]]]
    IN  IF raise THEN {<<>>}
        ELSE IF channel_id # None
        THEN IF ~channel_doc.exists THEN {<<>>}
             ELSE {slice(user_list(order), 0, limit) :
                      order \in sorted_items(users, DOMAIN users)}
        ELSE stream(S.reps, g, "count", limit)

\* get_channel_leaderboard: the lists it may return
get_channel_leaderboard(S, g, limit, raise) ==
    IF raise THEN {<<>>} ELSE stream(S.chans, g, "total_reps", limit)

\* get_user_profile that creates the record of a user who has none
profile_store_creates(S, g, u) ==
    IF DocId(g, u) \in DOMAIN S.reps THEN S
    ELSE [reps |-> DocSet(S.reps, DocId(g, u), zero_profile(g, u)),
          chans |-> S.chans]

\* the store after get_user_profile: the function reads one document and
\* writes none
profile_store(S, g, u) == S

(* ------------- SpecQuery: grants, revokes and the queries -------------- *)

\* grants and revokes in a behaviour of SpecQuery
MaxQueryOps == 4
\* largest limit asked of a query
MaxLimit == 2

QueryGuilds == {"g1", "g2"}
QueryUsers == {"u1", "u2", "u3"}
QueryChannels == {"c1", "c2", "c3"}
\* who receives points where: in g1 the member u1 in every channel and
\* every member in c1, and one member of g2
QueryTargets ==
    ({"g1"} \X {"u1"} \X QueryChannels) \cup ({"g1"} \X QueryUsers \X {"c1"})
    \cup {<<"g2", "u1", "c1">>}

queryframe == <<last, pre, undo, overlap, asked, granted, revoked, pc, call, loc,
                site, rep_cooldowns, now, view>>

\* A query leaves the store as it was, so every store is reached by grants
\* and revokes alone: a behaviour goes on after a query only with the revoke
\* that follows get_user_profile.
Updating == ev.kind \in {"none", "give_rep", "remove_rep"}

BeginUpdate ==
    /\ nops < MaxQueryOps
    /\ nops' = nops + 1

\* main.py give_rep, called by a command or a message of the giver u4
QueryGive ==
    /\ Updating
    /\ BeginUpdate
    /\ \E x \in QueryTargets :
        LET a == Args(x[1], x[2], x[3], channel_name(x[3]), "u4")
            r == main_give_rep(Store, a, "never")
        IN  /\ reps' = r.reps
            /\ chans' = r.chans
            /\ inserted' = inserted_after(inserted, r)
            /\ ev' = [kind |-> "give_rep", g |-> a.g, u |-> a.u, c |-> a.c,
                      ok |-> r.ok]
    /\ UNCHANGED <<queryframe, log>>

\* the entry of the log for a remove_rep without a channel_id that returned
\* True on the user record id
Omitted(id) == [op |-> "remove_rep", id |-> id, c |-> None]

\* remove_rep, with or without a channel
QueryRevoke ==
    /\ Updating \/ ev.kind = "get_user_profile"
    /\ BeginUpdate
    /\ \E x \in QueryTargets, nochannel \in BOOLEAN :
        LET a == Args(x[1], x[2], IF nochannel THEN None ELSE x[3], None, None)
            r == remove_rep(Store, a, "never")
        IN  /\ reps' = r.reps
            /\ chans' = r.chans
            /\ inserted' = inserted_after(inserted, r)
            /\ ev' = [kind |-> "remove_rep", g |-> x[1], u |-> x[2], ok |-> r.ok,
                      existed |-> DocId(x[1], x[2]) \in DOMAIN reps,
                      after_profile |-> /\ ev.kind = "get_user_profile"
                                        /\ ev.g = x[1] /\ ev.u = x[2],
                      c |-> a.c,
                      was |-> [count |-> UCount(reps, DocId(a.g, a.u)),
                               chan |-> UChan(reps, DocId(a.g, a.u), a.c),
                               cuser |-> CUser(chans, DocId(a.g, a.c), a.u),
                               total |-> CTotal(chans, DocId(a.g, a.c))]]
            /\ log' = IF r.ok /\ nochannel
                      THEN log \cup {Omitted(DocId(x[1], x[2]))}
                      ELSE log
    /\ UNCHANGED queryframe

GetUserProfile ==
    /\ Updating
    /\ \E g \in QueryGuilds, u \in QueryUsers, raise \in BOOLEAN :
        LET S == profile_store(Store, g, u)
        IN  /\ reps' = S.reps
            /\ chans' = S.chans
            /\ ev' = [kind |-> "get_user_profile", g |-> g, u |-> u,
                      raise |-> raise,
                      result |-> get_user_profile(Store, g, u, raise),
                      pre |-> Store]
    /\ UNCHANGED <<nops, inserted>>
    /\ UNCHANGED <<queryframe, log>>

GetTopChannels ==
    /\ Updating
    /\ \E g \in {"g1"}, u \in QueryUsers, limit \in 1..MaxLimit,
          raise \in {FALSE} :
       \E result \in get_top_channels(Store, g, u, limit, raise) :
        ev' = [kind |-> "get_top_channels", g |-> g, u |-> u, limit |-> limit,
               raise |-> raise, result |-> result,
               pre |-> Store, keys |-> inserted]
    /\ UNCHANGED <<reps, chans, nops, inserted>>
    /\ UNCHANGED <<queryframe, log>>

GetLeaderboard ==
    /\ Updating
    /\ \E g \in QueryGuilds, channel_id \in {"c1", "c2", None},
          limit \in 1..MaxLimit, raise \in {FALSE} :
       \E result \in get_leaderboard(Store, g, limit, channel_id, raise) :
        ev' = [kind |-> "get_leaderboard", g |-> g, channel_id |-> channel_id,
               limit |-> limit, raise |-> raise, result |-> result,
               pre |-> Store, keys |-> inserted]
    /\ UNCHANGED <<reps, chans, nops, inserted>>
    /\ UNCHANGED <<queryframe, log>>

GetChannelLeaderboard ==
    /\ Updating
    /\ \E g \in QueryGuilds, limit \in 1..MaxLimit, raise \in {FALSE} :
       \E result \in get_channel_leaderboard(Store, g, limit, raise) :
        ev' = [kind |-> "get_channel_leaderboard", g |-> g, limit |-> limit,
               raise |-> raise, result |-> result, pre |-> Store,
               keys |-> inserted]
    /\ UNCHANGED <<reps, chans, nops, inserted>>
    /\ UNCHANGED <<queryframe, log>>

NextQuery ==
    \/ QueryGive
    \/ QueryRevoke
    \/ GetUserProfile
    \/ GetTopChannels
    \/ GetLeaderboard
    \/ GetChannelLeaderboard

SpecQuery == Init /\ [][NextQuery]_vars

(* -------------- SpecPage: the pages of a LeaderboardView --------------- *)

\* self.entries_per_page = 10 (main.py:425, cogs/reputation.py:33)
entries_per_page == 10

\* members of the guild who hold points when the leaderboard is asked for
MaxMembers == 21
\* buttons pressed on a view
MaxClicks == 4

\* the id of the i-th member
member(i) == "m" \o ToString(i)

\* the store and its key orders after k more grants with the arguments a,
\* up to one that returns False
RECURSIVE grant_times(_, _, _, _)
grant_times(S, K, a, k) ==
    IF k = 0 THEN [S |-> S, K |-> K]
    ELSE LET r == main_give_rep(S, a, "never")
             S1 == [reps |-> r.reps, chans |-> r.chans]
         IN  IF ~r.ok THEN [S |-> S1, K |-> inserted_after(K, S1)]
             ELSE grant_times(S1, inserted_after(K, S1), a, k - 1)

\* the store after the members 1..n have received points in the channel c1 of
\* g1 by give_rep, one member after the other, the i-th member i points
RECURSIVE populated_by_grants(_)
populated_by_grants(n) ==
    IF n = 0 THEN [S |-> [reps |-> <<>>, chans |-> <<>>], K |-> NoKeys]
    ELSE LET p == populated_by_grants(n - 1)
         IN  grant_times(p.S, p.K, Args("g1", member(n), "c1", "general", "u4"), n)

\* that store, written out: the documents give_rep has set and updated
populated(n) ==
    LET number(u) == CHOOSE i \in 1..n : u = member(i)
        members == {member(i) : i \in 1..n}
    IN  [S |-> [reps |-> [id \in {DocId("g1", u) : u \in members} |->
                            [guild_id |-> "g1", user_id |-> id[2],
                             count |-> number(id[2]),
                             channels |-> ("c1" :> [name |-> "general",
                                                    count |-> number(id[2])]),
                             given_by |-> ("u4" :> number(id[2]))]],
                chans |-> IF n = 0 THEN <<>>
                          ELSE (DocId("g1", "c1") :>
                                  [guild_id |-> "g1", channel_id |-> "c1",
                                   channel_name |-> "general",
                                   users |-> [u \in members |-> number(u)],
                                   total_reps |-> (n * (n + 1)) \div 2])],
         K |-> [reps |-> [id \in {DocId("g1", u) : u \in members} |-> <<"c1">>],
                chans |-> IF n = 0 THEN <<>>
                          ELSE (DocId("g1", "c1") :> [i \in 1..n |-> member(i)])]]

\* LeaderboardView.__init__
LeaderboardView(guild_id, channel_id) ==
    [open |-> TRUE, guild_id |-> guild_id, channel_id |-> channel_id,
     page |-> 1, entries_per_page |-> entries_per_page]

\* create_leaderboard_embed: the embeds it may build, each with the limit it
\* asked of get_leaderboard, the list it got and the entries it shows
create_leaderboard_embed(S, guild_id, page, per_page, channel_id) ==
    LET offset == (page - 1) * per_page
        limit == per_page * page
    IN  {[page |-> page, limit |-> limit, leaderboard |-> leaderboard,
          page_entries |-> IF offset < Len(leaderboard)
                           THEN slice(leaderboard, offset, offset + per_page)
                           ELSE <<>>] :
            leaderboard \in get_leaderboard(S, guild_id, limit, channel_id, FALSE)}

NoEmbed == [page |-> 0]

\* update_leaderboard: the embed of the view's page replaces the message
update_leaderboard(S, v) ==
    create_leaderboard_embed(S, v.guild_id, v.page, v.entries_per_page,
                             v.channel_id)

\* next_button after "await interaction.response.defer()" (main.py:441-453),
\* on the view as it is then: the list is asked for up to the view's page, and
\* the page is taken back when the list has no entry for it
next_button_deferred(S, v) ==
    UNION {IF Len(leaderboard) < v.entries_per_page * (v.page - 1) + 1
           THEN {[view |-> [v EXCEPT !.page = @ - 1], outcome |-> "end",
                  embed |-> NoEmbed]}
           ELSE {[view |-> v, outcome |-> "updated", embed |-> e] :
                    e \in update_leaderboard(S, v)} :
           leaderboard \in get_leaderboard(S, v.guild_id,
                                            v.entries_per_page * v.page,
                                            v.channel_id, FALSE)}

\* next_button when no other handler of the view runs while it awaits the
\* defer: the page is advanced, then the part after the defer
next_button(S, v) ==
    next_button_deferred(S, [v EXCEPT !.page = @ + 1])

\* previous_button when no other handler of the view runs while it awaits
\* the defer
previous_button(S, v) ==
    IF v.page > 1
    THEN LET v1 == [v EXCEPT !.page = @ - 1]
         IN  {[view |-> v1, outcome |-> "updated", embed |-> e] :
                 e \in update_leaderboard(S, v1)}
    ELSE {[view |-> v, outcome |-> "first", embed |-> NoEmbed]}

\* global_button when no other handler of the view runs while it awaits the
\* defer
global_button(S, v) ==
    IF v.channel_id # None
    THEN LET v1 == [v EXCEPT !.channel_id = None, !.page = 1]
         IN  {[view |-> v1, outcome |-> "updated", embed |-> e] :
                 e \in update_leaderboard(S, v1)}
    ELSE {[view |-> v, outcome |-> "already", embed |-> NoEmbed]}

\* the members who hold points are drawn at the start
InitPage ==
    \E n \in 0..MaxMembers :
        /\ reps = populated(n).S.reps
        /\ chans = populated(n).S.chans
        /\ inserted = populated(n).K
        /\ last = Ran("none", "none", NoArgs, "never", FALSE)
        /\ pre = [reps |-> <<>>, chans |-> <<>>]
        /\ undo = NoUndo
        /\ overlap = FALSE
        /\ asked = [id \in UserIds |-> 0]
        /\ granted = [id \in UserIds |-> 0]
        /\ revoked = [id \in UserIds |-> 0]
        /\ nops = 0
        /\ pc = [p \in Clients |-> "idle"]
        /\ call = [p \in Clients |-> NoArgs]
        /\ loc = [p \in Clients |-> NoLocals]
        /\ site = "main"
        /\ rep_cooldowns = <<>>
        /\ now = 0
        /\ ev = NoEvent
        /\ log = {}
        /\ view = NoView

\* Each click runs as a task of its own on the one LeaderboardView. A
\* handler runs up to "await interaction.response.defer()", where the other
\* handlers of the view may run, and then to its end: get_leaderboard and
\* create_leaderboard_embed make their store calls without yielding, and
\* nothing of the view is read or written after the last await of a handler.

pageframe == <<reps, chans, inserted, last, pre, undo, overlap, asked, granted,
               revoked, loc, site, rep_cooldowns, now, log>>

\* what a handler of the view has done: before is the page when the button
\* was pressed, alone says that the view at the end of the handler's await is
\* the view the handler left there
Pressed(kind, before, channel_id, outcome, embed, alone) ==
    [kind |-> kind, before |-> before, channel_id |-> channel_id,
     outcome |-> outcome, embed |-> embed, alone |-> alone]

\* leaderboard_command for the global or a channel leaderboard: the view is
\* made and the embed of page 1 is sent with it
LeaderboardCommand ==
    /\ ~view.open
    /\ \E channel_id \in {None, "c1"} :
       \E e \in create_leaderboard_embed(Store, "g1", 1, 10, channel_id) :
        /\ view' = LeaderboardView("g1", channel_id)
        /\ ev' = Pressed("leaderboard_command", 1, channel_id, "updated", e, TRUE)
    /\ UNCHANGED <<nops, pc, call>>
    /\ UNCHANGED pageframe

\* a button of the open view is pressed
BeginClick(p) ==
    /\ view.open
    /\ FreeClient(p)
    /\ nops < MaxClicks
    /\ nops' = nops + 1

\* the handler p awaits the defer, having left the view as v
Deferred(p, kind, at, v) ==
    /\ view' = v
    /\ pc' = [pc EXCEPT ![p] = at]
    /\ call' = [call EXCEPT ![p] = [kind |-> kind, before |-> view.page,
                                    left |-> v]]
    /\ ev' = Pressed(kind, view.page, v.channel_id, "deferred", NoEmbed, TRUE)

\* the handler p answers without a defer and ends
Answered(kind, outcome) ==
    /\ ev' = Pressed(kind, view.page, view.channel_id, outcome, NoEmbed, TRUE)
    /\ UNCHANGED <<view, pc, call>>

\* next_button up to the defer (main.py:437-439): self.page += 1
NextButton(p) ==
    /\ BeginClick(p)
    /\ Deferred(p, "next_button", "next_deferred", [view EXCEPT !.page = @ + 1])
    /\ UNCHANGED pageframe

\* next_button after the defer (main.py:441-453), on the view as it is now
NextResume(p) ==
    /\ pc[p] = "next_deferred"
    /\ \E r \in next_button_deferred(Store, view) :
        /\ view' = r.view
        /\ ev' = Pressed(call[p].kind, call[p].before, r.view.channel_id,
                         r.outcome, r.embed, view = call[p].left)
    /\ pc' = [pc EXCEPT ![p] = "idle"]
    /\ call' = [call EXCEPT ![p] = NoArgs]
    /\ UNCHANGED nops
    /\ UNCHANGED pageframe

\* previous_button up to the defer (main.py:428-431): self.page -= 1 when
\* self.page > 1, or the answer "first page", which ends the handler
PreviousButton(p) ==
    /\ BeginClick(p)
    /\ IF view.page > 1
       THEN Deferred(p, "previous_button", "update_deferred",
                     [view EXCEPT !.page = @ - 1])
       ELSE Answered("previous_button", "first")
    /\ UNCHANGED pageframe

\* global_button up to the defer (main.py:456-460): channel_id = None and
\* page = 1, or the answer "already global", which ends the handler
GlobalButton(p) ==
    /\ BeginClick(p)
    /\ IF view.channel_id # None
       THEN Deferred(p, "global_button", "update_deferred",
                     [view EXCEPT !.channel_id = None, !.page = 1])
       ELSE Answered("global_button", "already")
    /\ UNCHANGED pageframe

\* previous_button and global_button after the defer (main.py:432, 461):
\* update_leaderboard builds the embed of the page and the list the view
\* holds now
UpdateResume(p) ==
    /\ pc[p] = "update_deferred"
    /\ \E e \in update_leaderboard(Store, view) :
        ev' = Pressed(call[p].kind, call[p].before, view.channel_id,
                      "updated", e, view = call[p].left)
    /\ pc' = [pc EXCEPT ![p] = "idle"]
    /\ call' = [call EXCEPT ![p] = NoArgs]
    /\ UNCHANGED <<nops, view>>
    /\ UNCHANGED pageframe

NextPage ==
    \/ LeaderboardCommand
    \/ \E p \in Clients :
        \/ NextButton(p)
        \/ NextResume(p)
        \/ PreviousButton(p)
        \/ GlobalButton(p)
        \/ UpdateResume(p)

SpecPage == InitPage /\ [][NextPage]_vars

(* ------------------------------- claims ------------------------------- *)

LastUser == DocId(last.a.g, last.a.u)
LastChannel == DocId(last.a.g, last.a.c)

\* C1 (stated for main.py's give_rep; SpecConc): when every grant begun on a
\* record has returned and no revoke succeeded on it, every one of the N
\* grants returned success and the record's count is N (the store begins
\* empty, so the pre-value is 0).
C1_ConcurrentGrantsCounted ==
    AllIdle =>
        \A id \in UserIds :
            revoked[id] = 0 =>
                /\ granted[id] = asked[id]
                /\ UCount(reps, id) = asked[id]

\* C2 (SpecConc): when no grant ran concurrently with any other handler, so
\* that only revokes interleave, and every handler has returned, each
\* record's count is the number of successful grants less the number of
\* revokes that returned success.
C2_ConcurrentRevokesCounted ==
    (AllIdle /\ ~overlap) =>
        \A id \in UserIds : UCount(reps, id) = granted[id] - revoked[id]

\* C3 (Spec): a successful grant adds exactly 1 to count, channels[c].count,
\* given_by[giver], total_reps and users[recipient] (absent counting as 0),
\* sets both names to the supplied name, and changes nothing else.
C3_GrantEffect ==
    (last.op = "give_rep" /\ last.ok) =>
        LET a == last.a
            uid == LastUser
            cid == LastChannel
        IN  /\ DOMAIN reps = DOMAIN pre.reps \cup {uid}
            /\ DOMAIN chans = DOMAIN pre.chans \cup {cid}
            /\ \A x \in DOMAIN pre.reps \ {uid} : reps[x] = pre.reps[x]
            /\ \A x \in DOMAIN pre.chans \ {cid} : chans[x] = pre.chans[x]
            /\ reps[uid].guild_id = a.g /\ reps[uid].user_id = a.u
            /\ reps[uid].count = UCount(pre.reps, uid) + 1
            /\ reps[uid].channels[a.c].count = UChan(pre.reps, uid, a.c) + 1
            /\ reps[uid].channels[a.c].name = a.n
            /\ reps[uid].given_by[a.by] = UGiven(pre.reps, uid, a.by) + 1
            /\ \A c \in Channels \ {a.c} :
                  /\ c \in DOMAIN reps[uid].channels
                        <=> (uid \in DOMAIN pre.reps
                             /\ c \in DOMAIN pre.reps[uid].channels)
                  /\ c \in DOMAIN reps[uid].channels
                        => reps[uid].channels[c] = pre.reps[uid].channels[c]
            /\ \A by \in Givers \ {a.by} :
                  /\ by \in DOMAIN reps[uid].given_by
                        <=> (uid \in DOMAIN pre.reps
                             /\ by \in DOMAIN pre.reps[uid].given_by)
                  /\ UGiven(reps, uid, by) = UGiven(pre.reps, uid, by)
            /\ chans[cid].guild_id = a.g /\ chans[cid].channel_id = a.c
            /\ chans[cid].channel_name = a.n
            /\ chans[cid].total_reps = CTotal(pre.chans, cid) + 1
            /\ chans[cid].users[a.u] = CUser(pre.chans, cid, a.u) + 1
            /\ \A u \in Users \ {a.u} :
                  /\ u \in DOMAIN chans[cid].users
                        <=> (cid \in DOMAIN pre.chans
                             /\ u \in DOMAIN pre.chans[cid].users)
                  /\ CUser(chans, cid, u) = CUser(pre.chans, cid, u)

\* a successful grant to existing records whose channel had another name
C3_Witness ==
    /\ last.op = "give_rep" /\ last.ok
    /\ LastUser \in DOMAIN pre.reps
    /\ LastChannel \in DOMAIN pre.chans
    /\ pre.chans[LastChannel].channel_name # last.a.n

\* C4 (Spec): a grant in which a store call raises returns failure and leaves
\* both collections as they were before the call.
C4_GrantAllOrNothing ==
    (last.op = "give_rep" /\ last.raise # "never") =>
        /\ ~last.ok
        /\ reps = pre.reps
        /\ chans = pre.chans

\* C5 (Spec): a revoke on a recipient whose count is 0 returns failure and
\* leaves the count at 0, and no stored count is negative.
C5_ZeroFloor ==
    /\ \A id \in DOMAIN reps : reps[id].count >= 0
    /\ (last.op = "remove_rep" /\ UCount(pre.reps, LastUser) = 0) =>
          /\ ~last.ok
          /\ UCount(reps, LastUser) = 0

\* a revoke, with no store error, on an existing record whose count is 0
C5_Witness ==
    /\ last.op = "remove_rep" /\ last.raise = "never"
    /\ LastUser \in DOMAIN pre.reps
    /\ pre.reps[LastUser].count = 0

\* the three refusals of revoke, on the state before the call
C6_Refused ==
    \/ LastUser \notin DOMAIN pre.reps
    \/ pre.reps[LastUser].count = 0
    \/ /\ last.a.c # None
       /\ \/ last.a.c \notin DOMAIN pre.reps[LastUser].channels
          \/ pre.reps[LastUser].channels[last.a.c].count = 0

\* C6 (Spec): revoke returns false and changes neither collection when the
\* recipient has no record, or a count of 0, or a channel_id is given whose
\* entry is absent or 0.
C6_RevokeRefusals ==
    (last.op = "remove_rep" /\ C6_Refused) =>
        /\ ~last.ok
        /\ reps = pre.reps
        /\ chans = pre.chans

\* a revoke, with no store error, for a channel in which a recipient with
\* points has none
C6_Witness ==
    /\ last.op = "remove_rep" /\ last.raise = "never"
    /\ LastUser \in DOMAIN pre.reps
    /\ pre.reps[LastUser].count > 0
    /\ last.a.c # None
    /\ last.a.c \notin DOMAIN pre.reps[LastUser].channels

\* C7 (Spec): a revoke with the same channel that directly follows a
\* successful grant succeeds and returns count, channels[c].count,
\* users[user] and total_reps to their values before the grant (absent
\* counting as 0).
C7_GrantRevokeInverse ==
    undo.on =>
        /\ last.ok
        /\ UCount(reps, LastUser) = undo.count
        /\ UChan(reps, LastUser, last.a.c) = undo.chan
        /\ CUser(chans, LastChannel, last.a.u) = undo.cuser
        /\ CTotal(chans, LastChannel) = undo.total

\* grant then revoke on a triple that already had points
C7_Witness == undo.on /\ undo.chan > 0 /\ undo.cuser > 0

\* C8 (Spec): a successful revoke with no channel_id takes 1 off count and
\* leaves the record's channels and given_by, every other record, and every
\* channel record unchanged.
C8_ChannelOmittedRevoke ==
    (last.op = "remove_rep" /\ last.ok /\ last.a.c = None) =>
        /\ reps[LastUser].count = pre.reps[LastUser].count - 1
        /\ reps[LastUser].channels = pre.reps[LastUser].channels
        /\ reps[LastUser].given_by = pre.reps[LastUser].given_by
        /\ DOMAIN reps = DOMAIN pre.reps
        /\ \A x \in DOMAIN reps \ {LastUser} : reps[x] = pre.reps[x]
        /\ chans = pre.chans

\* a successful revoke with no channel_id on a record with channel points
C8_Witness ==
    /\ last.op = "remove_rep" /\ last.ok /\ last.a.c = None
    /\ \E c \in DOMAIN reps[LastUser].channels :
          reps[LastUser].channels[c].count > 0

\* C9 (SpecConc): in every state, of every interleaving, each channel
\* record's total_reps is the sum of its users mapping.
C9_TotalIsSumOfUsers ==
    \A cid \in DOMAIN chans : chans[cid].total_reps = SumValues(chans[cid].users)

\* a channel record with two users after a successful channel revoke
C9_Witness ==
    \E cid \in DOMAIN chans :
        /\ Cardinality(DOMAIN chans[cid].users) = 2
        /\ \E u \in Users : revoked[DocId(cid[1], u)] > 0 /\ CUser(chans, cid, u) = 0

\* C10 as stated (SpecConc): each user record's count is the sum of its
\* given_by.
C10_CountIsSumOfGivenBy ==
    \A id \in DOMAIN reps : reps[id].count = SumValues(reps[id].given_by)

\* C10 amended (SpecConc): in every state, of every interleaving, a user
\* record on which no revoke has succeeded has count equal to the sum of its
\* given_by (a revoke that succeeds writes count and never given_by).
C10_CountIsGivenByUntilRevoke ==
    \A id \in DOMAIN reps :
        revoked[id] = 0 => reps[id].count = SumValues(reps[id].given_by)

\* a record on which a revoke has succeeded, its count below the sum of its
\* given_by, beside a record that has points and no revoke
C10_Witness ==
    \E id \in DOMAIN reps, other \in DOMAIN reps :
        /\ revoked[id] > 0
        /\ reps[id].count < SumValues(reps[id].given_by)
        /\ revoked[other] = 0
        /\ reps[other].count > 0

\* the cooldown gate at the present clock reading: on from the record to
\* window - 1 seconds after it, off and with nothing remaining from window
\* seconds on; off and nothing remaining for a giver never recorded
C15_Gate ==
    \A u \in Givers :
        IF u \in DOMAIN rep_cooldowns
        THEN LET t0 == rep_cooldowns[u]
             IN  /\ now <= t0 + (COOLDOWN_SECONDS - 1) * TicksPerSecond
                      => is_on_cooldown(rep_cooldowns, u, now)
                 /\ now >= t0 + COOLDOWN_SECONDS * TicksPerSecond
                      => /\ ~is_on_cooldown(rep_cooldowns, u, now)
                         /\ get_cooldown_remaining(rep_cooldowns, u, now) = 0
        ELSE /\ ~is_on_cooldown(rep_cooldowns, u, now)
             /\ get_cooldown_remaining(rep_cooldowns, u, now) = 0

\* a step in which time passes within the window of a record that stays
C15_InWindowStep(u) ==
    /\ u \in DOMAIN rep_cooldowns
    /\ rep_cooldowns' = rep_cooldowns
    /\ now' > now
    /\ now' <= rep_cooldowns[u] + (COOLDOWN_SECONDS - 1) * TicksPerSecond

\* C15 as stated (SpecCooldown): the gate, and remaining strictly decreases
\* whenever time grows within the window.
C15_CooldownGate ==
    /\ []C15_Gate
    /\ [][\A u \in Givers : C15_InWindowStep(u) =>
             get_cooldown_remaining(rep_cooldowns', u, now')
                 < get_cooldown_remaining(rep_cooldowns, u, now)]_vars

\* C15 amended (SpecCooldown): the gate, and within the window remaining
\* never grows with time and is strictly smaller once a whole second passed.
C15_CooldownGateWholeSeconds ==
    /\ []C15_Gate
    /\ [][\A u \in Givers : C15_InWindowStep(u) =>
             /\ get_cooldown_remaining(rep_cooldowns', u, now')
                  <= get_cooldown_remaining(rep_cooldowns, u, now)
             /\ now' - now >= TicksPerSecond =>
                  get_cooldown_remaining(rep_cooldowns', u, now')
                      < get_cooldown_remaining(rep_cooldowns, u, now)]_vars

\* a record made after the start of the run whose window has just expired,
\* beside a giver never recorded
C15_Witness ==
    \E u \in Givers :
        /\ u \in DOMAIN rep_cooldowns
        /\ rep_cooldowns[u] > 0
        /\ now = rep_cooldowns[u] + COOLDOWN_SECONDS * TicksPerSecond
        /\ \E v \in Givers : v \notin DOMAIN rep_cooldowns

\* word-boundary policy: some occurrence of some trigger in the lowercased
\* text lies between non-alphanumeric characters or the ends of the text
C19_WordBoundary(text, triggers) ==
    LET t == lower(text)
    IN \E i \in 1..Len(triggers) : \E pos \in 0..Len(t) :
          /\ occurs_at(t, triggers[i], pos)
          /\ (pos = 0 \/ ~isalnum(t[pos]))
          /\ (pos + Len(triggers[i]) = Len(t)
              \/ ~isalnum(t[pos + Len(triggers[i]) + 1]))

\* C19 (SpecTrigger): at every call site the trigger test of a message is
\* true exactly when the word-boundary policy finds a trigger in its text.
C19_TriggerWordBoundary ==
    ev.kind = "trigger" =>
        ev.result = C19_WordBoundary(ev.content, rep_triggers_of(site))

\* C19 for main.py alone (SpecTrigger): contains_trigger_word follows the
\* word-boundary policy.
C19_MainWordBoundary ==
    (ev.kind = "trigger" /\ site = "main") =>
        ev.result = C19_WordBoundary(ev.content, rep_triggers_of(site))

\* the giver of the command handled last was on cooldown when the command
\* made its checks
C12_OnCooldown == is_on_cooldown(ev.checked.cd, ev.giver, ev.checked.t)

\* C12 (SpecCmd): a give_rep command whose recipient is the giver or a bot,
\* or whose giver is on cooldown, makes no ledger grant call and leaves both
\* collections and every cooldown entry as they were.
C12_RejectedGrantNoEffect ==
    (/\ ev.kind = "give_rep_command"
     /\ (ev.user = ev.giver \/ ev.user \in Bots \/ C12_OnCooldown)) =>
        /\ ev.calls = <<>>
        /\ reps = ev.pre.reps
        /\ chans = ev.pre.chans
        /\ rep_cooldowns = ev.pre_cd

\* a command to a member, with records in the ledger, from a giver who is on
\* cooldown
C12_Witness ==
    /\ ev.kind = "give_rep_command"
    /\ ev.user # ev.giver /\ ev.user \notin Bots
    /\ C12_OnCooldown
    /\ DOMAIN reps # {}

\* C13 (SpecCmd): a command with recipient = giver is answered with the
\* self-grant rejection and one to a bot with the bot rejection, on cooldown
\* or not; the cooldown rejection is the answer exactly when the recipient is
\* neither and the giver is on cooldown.
C13_ValidationOrder ==
    ev.kind = "give_rep_command" =>
        /\ ev.user = ev.giver => ev.outcome = "self"
        /\ (ev.user # ev.giver /\ ev.user \in Bots) => ev.outcome = "bot"
        /\ ev.outcome = "cooldown"
             <=> (ev.user # ev.giver /\ ev.user \notin Bots /\ C12_OnCooldown)

\* a self-grant command from a giver who is on cooldown
C13_Witness ==
    /\ ev.kind = "give_rep_command"
    /\ ev.user = ev.giver
    /\ C12_OnCooldown

\* no other event has written the giver's cooldown entry between the checks
\* of the command handled last and its ledger grant
C14_EntryAsChecked ==
    IF ev.giver \in DOMAIN ev.checked.cd
    THEN ev.giver \in DOMAIN ev.pre_cd /\ ev.pre_cd[ev.giver] = ev.checked.cd[ev.giver]
    ELSE ev.giver \notin DOMAIN ev.pre_cd

\* C14 (SpecCmd): a command that passes validation calls the ledger grant
\* once; if that returned success the giver's cooldown entry is the time of
\* the grant and the other entries are as they were before it, and if it
\* returned failure the cooldown map is as it was before it, so that the giver
\* is still not on cooldown unless another event of the giver wrote the entry
\* while the command awaited its defer.
C14_CooldownIffGranted ==
    (/\ ev.kind = "give_rep_command"
     /\ ev.user # ev.giver /\ ev.user \notin Bots /\ ~C12_OnCooldown) =>
        /\ Len(ev.calls) = 1
        /\ IF ev.calls[1].ok
           THEN /\ ev.nrec = 1
                /\ DOMAIN rep_cooldowns = DOMAIN ev.pre_cd \cup {ev.giver}
                /\ rep_cooldowns[ev.giver] = ev.t
                /\ \A x \in DOMAIN ev.pre_cd \ {ev.giver} :
                      rep_cooldowns[x] = ev.pre_cd[x]
           ELSE /\ ev.nrec = 0
                /\ rep_cooldowns = ev.pre_cd
                /\ C14_EntryAsChecked =>
                      ~is_on_cooldown(rep_cooldowns, ev.giver, ev.t)

\* a successful command that overwrites the giver's expired cooldown entry
C14_Witness ==
    /\ ev.kind = "give_rep_command"
    /\ ev.giver \in DOMAIN ev.pre_cd
    /\ ev.pre_cd[ev.giver] < ev.t
    /\ Len(ev.calls) = 1 /\ ev.calls[1].ok

\* the eligible recipients of the message handled last
C17_Eligible == {u \in Range(ev.mentions) : u # ev.author /\ u \notin Bots}

\* the message handled last passed the filters with its author off cooldown
C17_Passes ==
    /\ ev.author \notin Bots
    /\ ev.guild # None
    /\ ev.trigger
    /\ C17_Eligible # {}
    /\ ~is_on_cooldown(ev.checked.cd, ev.author, ev.checked.t)

\* C17 (SpecMsg): a message that passes the filters with its author not on
\* cooldown calls the ledger grant exactly once for each eligible mentioned
\* recipient, whatever the other calls returned, and records the author's
\* cooldown once if some call returned success and not at all otherwise.
C17_MessageGrantsEach ==
    (ev.kind = "on_message" /\ C17_Passes) =>
        /\ Len(ev.calls) = Cardinality(C17_Eligible)
        /\ \A u \in C17_Eligible :
              Cardinality({i \in 1..Len(ev.calls) : ev.calls[i].u = u}) = 1
        /\ IF \E i \in 1..Len(ev.calls) : ev.calls[i].ok
           THEN /\ ev.nrec = 1
                /\ ev.author \in DOMAIN rep_cooldowns
                /\ rep_cooldowns[ev.author] = ev.t
           ELSE /\ ev.nrec = 0
                /\ rep_cooldowns = ev.pre_cd

\* a message with two eligible recipients of which one grant failed and the
\* other succeeded
C17_Witness ==
    /\ ev.kind = "on_message" /\ C17_Passes
    /\ \E i, j \in 1..Len(ev.calls) : ev.calls[i].ok /\ ~ev.calls[j].ok

\* C18 (SpecMsg): a message that mentions no eligible recipient, or in which
\* the trigger test finds nothing, makes no grant call, is not answered with
\* the cooldown rejection and leaves the cooldown map unchanged.
C18_IneligibleMessageSilent ==
    (ev.kind = "on_message" /\ (C17_Eligible = {} \/ ~ev.trigger)) =>
        /\ ev.calls = <<>>
        /\ ev.outcome # "cooldown"
        /\ rep_cooldowns = ev.pre_cd

\* the number of ledger revoke calls of the last command that returned True
C20_Successes == Cardinality({i \in 1..Len(ev.calls) : ev.calls[i]})

\* C20 (SpecRevoke): a remove_rep command from a privileged caller with
\* amount n >= 1 makes at least one and at most n ledger revoke calls, none
\* after a call that returned failure and all n unless one did; it reports
\* the number of calls that returned success, and the recipient's count has
\* decreased by that number, which with no channel and no store error is
\* min(n, count).
C20_RevokeLoop ==
    (/\ ev.kind = "remove_rep_command"
     /\ (ev.invoker \in ADMIN_USERS \/ ev.administrator)
     /\ ev.amount >= 1) =>
        /\ Len(ev.calls) \in 1..ev.amount
        /\ \A i \in 1..(Len(ev.calls) - 1) : ev.calls[i]
        /\ Len(ev.calls) < ev.amount => ~ev.calls[Len(ev.calls)]
        /\ ev.reported = C20_Successes
        /\ UCount(reps, ev.user) = UCount(ev.pre.reps, ev.user) - ev.reported
        /\ (ev.channel = None /\ ~ev.raised) =>
              ev.reported = IF ev.amount <= UCount(ev.pre.reps, ev.user)
                            THEN ev.amount ELSE UCount(ev.pre.reps, ev.user)

\* a command for more points than the recipient's one, with no channel: the
\* second call returned failure
C20_Witness ==
    /\ ev.kind = "remove_rep_command"
    /\ ev.channel = None /\ ~ev.raised
    /\ UCount(ev.pre.reps, ev.user) = 1
    /\ ev.amount > 1
    /\ ev.calls = <<TRUE, FALSE>>
    /\ ev.reported = 1

\* C11 (SpecConc): in every state, of every interleaving, every stored
\* counter is a non-negative integer: count, channels[c].count and
\* given_by[g] of each user record, users[u] and total_reps of each channel
\* record.
C11_CountersNonNegative ==
    /\ \A id \in DOMAIN reps :
          /\ reps[id].count \in Nat
          /\ \A c \in DOMAIN reps[id].channels : reps[id].channels[c].count \in Nat
          /\ \A by \in DOMAIN reps[id].given_by : reps[id].given_by[by] \in Nat
    /\ \A cid \in DOMAIN chans :
          /\ chans[cid].total_reps \in Nat
          /\ \A u \in DOMAIN chans[cid].users : chans[cid].users[u] \in Nat

\* more revokes than grants have succeeded on a record, by interleaving, and
\* its counters of the channel are at 0
C11_Witness ==
    \E id \in DOMAIN reps : \E c \in DOMAIN reps[id].channels :
        /\ revoked[id] > granted[id]
        /\ reps[id].count = 0
        /\ reps[id].channels[c].count = 0
        /\ CUser(chans, DocId(id[1], c), id[2]) = 0
        /\ DocId(id[1], c) \in DOMAIN chans

\* C16 (SpecCmdConc): two distinct events of the same giver both end in a
\* successful ledger grant only if at least a cooldown window lies between
\* the two grants.
C16_CooldownUnderConcurrency ==
    \A x, y \in log :
        (x.e # y.e /\ x.by = y.by /\ x.t <= y.t) =>
            y.t - x.t >= COOLDOWN_SECONDS * TicksPerSecond


\* C21 (SpecRevoke): a remove_rep command from a caller who is neither in
\* ADMIN_USERS nor holds the administrator permission is answered "denied",
\* whatever its amount (the privilege is tested before the amount); one from a
\* privileged caller with amount < 1 is answered "bad_amount"; either way no
\* ledger revoke is called and both collections are as they were.
C21_RevokeRejections ==
    ev.kind = "remove_rep_command" =>
        /\ (ev.invoker \notin ADMIN_USERS /\ ~ev.administrator) =>
              /\ ev.outcome = "denied"
              /\ ev.calls = <<>>
              /\ Store = ev.pre
        /\ ((ev.invoker \in ADMIN_USERS \/ ev.administrator) /\ ev.amount < 1) =>
              /\ ev.outcome = "bad_amount"
              /\ ev.calls = <<>>
              /\ Store = ev.pre

\* an unprivileged caller asks for amount 0 of a recipient who has a point
C21_Witness ==
    /\ ev.kind = "remove_rep_command"
    /\ ev.invoker \notin ADMIN_USERS /\ ~ev.administrator
    /\ ev.amount < 1
    /\ ev.outcome = "denied"
    /\ UCount(reps, ev.user) > 0

\* the place of the key k in an order of keys
KeyPos(order, k) == CHOOSE i \in 1..Len(order) : order[i] = k

\* result is min(limit, number of keys) entries of mapping (a count to each
\* key) with distinct keys, by non-increasing count, and no entry left out
\* has a greater count than a returned one; key(e) is the key of an entry
RankedByCount(result, key(_), mapping, limit) ==
    /\ Len(result) = Min(limit, Cardinality(DOMAIN mapping))
    /\ \A i \in 1..Len(result) :
          /\ key(result[i]) \in DOMAIN mapping
          /\ result[i].count = mapping[key(result[i])]
    /\ \A i, j \in 1..Len(result) :
          i < j =>
             /\ key(result[i]) # key(result[j])
             /\ result[i].count >= result[j].count
    /\ \A k \in DOMAIN mapping \ {key(result[i]) : i \in 1..Len(result)} :
          \A i \in 1..Len(result) : mapping[k] <= result[i].count

\* result is the list of the entries of mapping (a count to each key, keys
\* inserted in the order 'order'), taken by non-increasing count, entries of
\* equal count in the order of insertion, and cut to limit
RankedPrefix(result, key(_), mapping, order, limit) ==
    /\ Len(result) = Min(limit, Cardinality(DOMAIN mapping))
    /\ \A i \in 1..Len(result) :
          /\ key(result[i]) \in DOMAIN mapping
          /\ result[i].count = mapping[key(result[i])]
    /\ \A i, j \in 1..Len(result) :
          i < j =>
             /\ key(result[i]) # key(result[j])
             /\ result[i].count >= result[j].count
             /\ result[i].count = result[j].count =>
                   KeyPos(order, key(result[i])) < KeyPos(order, key(result[j]))
    /\ \A k \in DOMAIN mapping \ {key(result[i]) : i \in 1..Len(result)} :
          \A i \in 1..Len(result) :
             /\ mapping[k] <= result[i].count
             /\ mapping[k] = result[i].count =>
                   KeyPos(order, key(result[i])) < KeyPos(order, k)

C22_Key(e) == e.user_id

\* C22 (SpecQuery): get_leaderboard with a channel_id returns the empty list
\* when the channel record does not exist; otherwise it returns entries
\* (user_id, count) of the record's users mapping, min(limit, number of
\* users) of them, by non-increasing count, entries of equal count in the
\* order in which the users were inserted, and no user left out ranks before
\* a returned one.
C22_ChannelLeaderboard ==
    (ev.kind = "get_leaderboard" /\ ev.channel_id # None /\ ~ev.raise) =>
        LET id == DocId(ev.g, ev.channel_id)
        IN  IF id \notin DOMAIN ev.pre.chans THEN ev.result = <<>>
            ELSE RankedPrefix(ev.result, C22_Key, ev.pre.chans[id].users,
                              ev.keys.chans[id], ev.limit)

\* the part of C22 that leaves the order of equal counts open (SpecQuery):
\* the empty list when the channel record does not exist, otherwise
\* min(limit, number of users) entries of the users mapping by non-increasing
\* count, no user left out having a greater count than a returned one
C22_RanksByCount ==
    (ev.kind = "get_leaderboard" /\ ev.channel_id # None /\ ~ev.raise) =>
        LET id == DocId(ev.g, ev.channel_id)
        IN  IF id \notin DOMAIN ev.pre.chans THEN ev.result = <<>>
            ELSE RankedByCount(ev.result, C22_Key, ev.pre.chans[id].users,
                               ev.limit)

\* the documents of guild g in a collection
GuildDocs(coll, g) == {id \in DOMAIN coll : coll[id].guild_id = g}

\* result is min(limit, n) distinct documents of the guild, by non-increasing
\* field, and no document of the guild left out has a greater field than a
\* returned one
RankedDocs(result, coll, g, field, limit) ==
    /\ Len(result) = Min(limit, Cardinality(GuildDocs(coll, g)))
    /\ \A i \in 1..Len(result) :
          /\ result[i].guild_id = g
          /\ \E id \in GuildDocs(coll, g) : result[i] = coll[id]
    /\ \A i, j \in 1..Len(result) :
          i < j => /\ result[i] # result[j]
                   /\ result[i][field] >= result[j][field]
    /\ \A id \in GuildDocs(coll, g) :
          (\A i \in 1..Len(result) : result[i] # coll[id]) =>
              \A i \in 1..Len(result) : coll[id][field] <= result[i][field]

\* C23 (SpecQuery): get_leaderboard without a channel and
\* get_channel_leaderboard return min(limit, number of records of the guild)
\* records, all of the queried guild, by non-increasing count (total_reps for
\* the channels), and every record of the guild left out has a value no
\* greater than every returned one.
C23_GuildRanking ==
    /\ (ev.kind = "get_leaderboard" /\ ev.channel_id = None /\ ~ev.raise) =>
          RankedDocs(ev.result, ev.pre.reps, ev.g, "count", ev.limit)
    /\ (ev.kind = "get_channel_leaderboard" /\ ~ev.raise) =>
          RankedDocs(ev.result, ev.pre.chans, ev.g, "total_reps", ev.limit)

\* guild g1 has records with counts 2 and 1, guild g2 has a record; the
\* leaderboard of g1 with limit 1 is the record with count 2
C23_Witness ==
    /\ ev.kind = "get_leaderboard" /\ ev.channel_id = None
    /\ ev.g = "g1" /\ ev.limit = 1
    /\ Cardinality(GuildDocs(ev.pre.reps, "g1")) = 2
    /\ GuildDocs(ev.pre.reps, "g2") # {}
    /\ Len(ev.result) = 1
    /\ ev.result[1].count = 2

QueryKinds == {"get_user_profile", "get_top_channels", "get_leaderboard",
               "get_channel_leaderboard"}

\* C25 (SpecQuery): get_user_profile of a user with no record returns count
\* 0 with empty channels and given_by; after every query both collections
\* are as they were before it; a revoke that directly follows
\* get_user_profile of a user with no record returns failure and the user
\* still has no record.
C25_QueriesReadOnly ==
    /\ (ev.kind = "get_user_profile"
        /\ DocId(ev.g, ev.u) \notin DOMAIN ev.pre.reps) =>
          /\ ev.result.count = 0
          /\ ev.result.channels = <<>>
          /\ ev.result.given_by = <<>>
    /\ ev.kind \in QueryKinds => Store = ev.pre
    /\ (ev.kind = "remove_rep" /\ ev.after_profile /\ ~ev.existed) =>
          /\ ~ev.ok
          /\ DocId(ev.g, ev.u) \notin DOMAIN reps

\* a revoke follows the profile query of a user who has no record, in a
\* store that holds records of others
C25_Witness ==
    /\ ev.kind = "remove_rep"
    /\ ev.after_profile
    /\ ~ev.existed
    /\ ~ev.ok
    /\ reps # <<>>

C26_Key(e) == e.id

\* the counts of a channels breakdown
C26_Counts(channels) == [c \in DOMAIN channels |-> channels[c].count]

\* C26 (SpecQuery): get_top_channels returns min(limit, number of channels)
\* entries of the user's channels breakdown, by non-increasing count, entries
\* of equal count in the order in which the channels were inserted, each with
\* the name stored for the channel; a user with no record gives the empty
\* list.
C26_TopChannels ==
    (ev.kind = "get_top_channels" /\ ~ev.raise) =>
        LET id == DocId(ev.g, ev.u)
        IN  IF id \notin DOMAIN ev.pre.reps THEN ev.result = <<>>
            ELSE /\ RankedPrefix(ev.result, C26_Key,
                                 C26_Counts(ev.pre.reps[id].channels),
                                 ev.keys.reps[id], ev.limit)
                 /\ \A i \in 1..Len(ev.result) :
                       ev.result[i].name =
                           ev.pre.reps[id].channels[ev.result[i].id].name

\* the part of C26 that leaves the order of equal counts open (SpecQuery):
\* min(limit, number of channels) entries of the breakdown by non-increasing
\* count, each with the name stored for the channel, and the empty list for a
\* user with no record
C26_RanksByCount ==
    (ev.kind = "get_top_channels" /\ ~ev.raise) =>
        LET id == DocId(ev.g, ev.u)
        IN  IF id \notin DOMAIN ev.pre.reps THEN ev.result = <<>>
            ELSE /\ RankedByCount(ev.result, C26_Key,
                                  C26_Counts(ev.pre.reps[id].channels), ev.limit)
                 /\ \A i \in 1..Len(ev.result) :
                       ev.result[i].name =
                           ev.pre.reps[id].channels[ev.result[i].id].name

\* the number of entries of the leaderboard the view is on
C24_Entries ==
    IF ev.channel_id = None THEN Cardinality(GuildDocs(reps, view.guild_id))
    ELSE IF DocId(view.guild_id, ev.channel_id) \in DOMAIN chans
    THEN Cardinality(DOMAIN chans[DocId(view.guild_id, ev.channel_id)].users)
    ELSE 0

\* C24 (SpecPage): an embed shown for page p is built from a request of
\* limit = entries_per_page * p and shows exactly the entries of that result
\* at the positions (p-1)*entries_per_page .. p*entries_per_page - 1
\* (counted from 0), and p is the view's page; when next_button is pressed
\* and the leaderboard has no entry for the next page, the end of the list is
\* signaled and the view's page is the page before the press.
C24_Pagination ==
    /\ (ev.kind \in {"leaderboard_command", "next_button", "previous_button",
                     "global_button"} /\ ev.outcome = "updated") =>
          LET e == ev.embed
              s == view.entries_per_page
              shown == {i \in 0..(Len(e.leaderboard) - 1) :
                           (e.page - 1) * s <= i /\ i <= e.page * s - 1}
          IN  /\ e.page = view.page
              /\ e.limit = s * e.page
              /\ Len(e.page_entries) = Cardinality(shown)
              /\ \A i \in shown :
                    e.page_entries[i - (e.page - 1) * s + 1] = e.leaderboard[i + 1]
    /\ (ev.kind = "next_button" /\ ev.outcome # "deferred"
        /\ C24_Entries <= view.entries_per_page * ev.before) =>
          /\ ev.outcome = "end"
          /\ view.page = ev.before

\* the second part for a next_button that found the view, at the end of its
\* await, as it had left it, where it holds
C24_NextAlone ==
    (ev.kind = "next_button" /\ ev.outcome # "deferred" /\ ev.alone
     /\ C24_Entries <= view.entries_per_page * ev.before) =>
        /\ ev.outcome = "end"
        /\ view.page = ev.before

\* the store drawn at the start of SpecPage is the one give_rep builds
\* (compared for up to 8 members)
PopulatedByGrants ==
    \A n \in 0..8 : populated(n) = populated_by_grants(n)

\* every record and every key of its mappings is kept by the step
C27_Kept ==
    /\ \A id \in DOMAIN reps :
          /\ id \in DOMAIN reps'
          /\ DOMAIN reps[id].channels \subseteq DOMAIN reps'[id].channels
          /\ DOMAIN reps[id].given_by \subseteq DOMAIN reps'[id].given_by
    /\ \A id \in DOMAIN chans :
          /\ id \in DOMAIN chans'
          /\ DOMAIN chans[id].users \subseteq DOMAIN chans'[id].users

\* the step is a write of give_rep: the whole handler in Spec, one of its
\* two writes in SpecConc
C27_GrantStep ==
    \/ nops' = nops + 1 /\ last'.op = "give_rep"
    \/ \E p \in Clients :
          /\ pc[p] \in {"give_user_write", "give_channel_write"}
          /\ pc'[p] # pc[p]

\* a record that appears in the step is written by give_rep
C27_Created ==
    (DOMAIN reps' # DOMAIN reps \/ DOMAIN chans' # DOMAIN chans) => C27_GrantStep

\* C27 (SpecConc): no step removes a user record, a channel record, or a key
\* of channels, given_by or users, and a record appears only in a step of a
\* grant.
C27_Lifecycle == [][C27_Kept /\ C27_Created]_vars

\* the same of the handlers run one after the other (Spec), where it holds:
\* the records and keys the handler found are there when it returns
C27_LifecycleSequential ==
    /\ \A id \in DOMAIN pre.reps :
          /\ id \in DOMAIN reps
          /\ DOMAIN pre.reps[id].channels \subseteq DOMAIN reps[id].channels
          /\ DOMAIN pre.reps[id].given_by \subseteq DOMAIN reps[id].given_by
    /\ \A id \in DOMAIN pre.chans :
          /\ id \in DOMAIN chans
          /\ DOMAIN pre.chans[id].users \subseteq DOMAIN chans[id].users
    /\ (DOMAIN reps # DOMAIN pre.reps \/ DOMAIN chans # DOMAIN pre.chans) =>
          last.op = "give_rep"

(* ------------------------------ C28 ----------------------------------- *)

\* the answers a remove_rep command gives once its loop has run
C28_RevokeAnswers == {"removed", "nothing"}

\* C28 (SpecRevoke): a store error inside give_rep or remove_rep reaches the
\* command as the return value False and never as an exception: the grant
\* command answers "failed" with its one call returning False, the revoke
\* command ends its loop on a call that returned False and answers; and an
\* event that follows one with a store error is handled as usual: a grant
\* that passes the checks makes its one call of give_rep and answers, with
\* "granted" unless a store call raised in that call too, a revoke by a
\* privileged caller with a positive amount runs its loop and answers.
C28_ErrorsBecomeFalse ==
    /\ (ev.kind = "give_rep_command" /\ StoreError(ev)) =>
        /\ ev.outcome = "failed"
        /\ ev.calls = <<[u |-> ev.user, ok |-> FALSE]>>
    /\ (ev.kind = "remove_rep_command" /\ StoreError(ev)) =>
        /\ ev.outcome \in C28_RevokeAnswers
        /\ ev.calls # <<>>
        /\ ~ev.calls[Len(ev.calls)]
    /\ (ev.kind = "give_rep_command" /\ ev.after_error
        /\ grant_validation(ev.checked.cd, ev.checked.t, ev.giver, ev.user) = "ok") =>
        /\ ev.outcome = IF StoreError(ev) THEN "failed" ELSE "granted"
        /\ ev.calls = <<[u |-> ev.user, ok |-> ~StoreError(ev)]>>
    /\ (ev.kind = "remove_rep_command" /\ ev.after_error
        /\ (ev.invoker \in ADMIN_USERS \/ ev.administrator)
        /\ ev.amount >= 1) =>
        /\ ev.outcome \in C28_RevokeAnswers
        /\ ev.calls # <<>>

\* a grant is made by the event that follows a grant with a store error
C28_Witness ==
    /\ ev.kind = "give_rep_command"
    /\ ev.after_error
    /\ ev.outcome = "granted"

(* ------------------------------ C29 ----------------------------------- *)

\* C29 (Spec): a remove_rep that returns False because a store call raised
\* leaves both records as they were before the call; for a revoke with a
\* channel_id the channel's users[user_id] and total_reps are unchanged.
C29_FailedRevokeNoEffect ==
    (last.op = "remove_rep" /\ ~last.ok /\ last.raise # "never") =>
        /\ Store = pre
        /\ last.a.c # None =>
            /\ CUser(chans, DocId(last.a.g, last.a.c), last.a.u)
                 = CUser(pre.chans, DocId(last.a.g, last.a.c), last.a.u)
            /\ CTotal(chans, DocId(last.a.g, last.a.c))
                 = CTotal(pre.chans, DocId(last.a.g, last.a.c))

\* a remove_rep whose store call raised before the first write changed
\* nothing
C29_FailedBeforeWrite ==
    (last.op = "remove_rep" /\ ~last.ok /\ last.raise = "before_first_write") =>
        Store = pre

(* ------------------------------ C30 ----------------------------------- *)

\* C30 (SpecQuery): after grants and revokes that run one after the other
\* with no store error, for every guild, user and channel the count of the
\* channel in the user's record equals the user's count in the channel's
\* record, an absent record or key counting as 0.
C30_Mirror ==
    \A g \in QueryGuilds, u \in QueryUsers, c \in QueryChannels :
        UChan(reps, DocId(g, u), c) = CUser(chans, DocId(g, c), u)

\* a revoke with a channel has brought a user's count in one channel back to
\* 0 while the user still has a point in another channel
C30_Witness ==
    /\ ev.kind = "remove_rep" /\ ev.ok
    /\ \E c1, c2 \in QueryChannels :
        /\ DocId(ev.g, c1) \in DOMAIN chans
        /\ ev.u \in DOMAIN chans[DocId(ev.g, c1)].users
        /\ chans[DocId(ev.g, c1)].users[ev.u] = 0
        /\ UChan(reps, DocId(ev.g, ev.u), c1) = 0
        /\ UChan(reps, DocId(ev.g, ev.u), c2) > 0
        /\ CUser(chans, DocId(ev.g, c2), ev.u) > 0

(* ------------------------------ C31 ----------------------------------- *)

\* the sum of channels[*].count of a user record
ChannelSum(doc) ==
    SumValues([c \in DOMAIN doc.channels |-> doc.channels[c].count])

\* C31 (SpecQuery): after grants and revokes that run one after the other
\* with no store error, the count of every user record is at most the sum of
\* its channels[*].count, and equal to it as long as no remove_rep without a
\* channel_id has returned True on that record.
C31_CountAtMostChannelSum ==
    \A id \in DOMAIN reps :
        /\ reps[id].count <= ChannelSum(reps[id])
        /\ Omitted(id) \notin log => reps[id].count = ChannelSum(reps[id])

\* both cases on one store after a revoke that returned True: a record on
\* which a revoke without a channel_id has succeeded, whose count is below
\* the sum, and a record with points on which none has
C31_Witness ==
    /\ ev.kind = "remove_rep" /\ ev.ok
    /\ \E id \in DOMAIN reps :
        /\ Omitted(id) \in log
        /\ reps[id].count < ChannelSum(reps[id])
    /\ \E id \in DOMAIN reps :
        /\ Omitted(id) \notin log
        /\ reps[id].count >= 1

(* ------------------------------ C32 ----------------------------------- *)

\* the record of the revoke handled last, and its channel record
C32_User == DocId(ev.g, ev.u)
C32_Channel == DocId(ev.g, ev.c)

\* C32 (SpecQuery): a user record with count = 0 and channels[c].count > 0
\* is reached by a grant in c and a remove_rep without a channel_id; on such
\* a record remove_rep with channel c returns False and leaves
\* channels[c].count, the channel's users[user_id] and its total_reps as they
\* were; once a grant has raised the count the same revoke returns True.
C32_Unrevocable ==
    (ev.kind = "remove_rep" /\ ev.c # None /\ ev.was.chan > 0) =>
        IF ev.was.count = 0
        THEN /\ ~ev.ok
             /\ UChan(reps, C32_User, ev.c) = ev.was.chan
             /\ CUser(chans, C32_Channel, ev.u) = ev.was.cuser
             /\ CTotal(chans, C32_Channel) = ev.was.total
        ELSE /\ ev.ok
             /\ UChan(reps, C32_User, ev.c) = ev.was.chan - 1

\* a revoke with channel c has run on a record with count = 0 and
\* channels[c].count > 0, whose points in c are counted by the channel record
C32_Witness ==
    /\ ev.kind = "remove_rep" /\ ev.c # None
    /\ ev.was.count = 0 /\ ev.was.chan > 0
    /\ Omitted(C32_User) \in log
    /\ ev.was.cuser > 0 /\ ev.was.total > 0

\* the same revoke returns True after a further grant: the record has had a
\* revoke without a channel_id and the revoke with a channel succeeds
C32_RevokedAfterFurtherGrant ==
    /\ ev.kind = "remove_rep" /\ ev.c # None /\ ev.ok
    /\ Omitted(C32_User) \in log
    /\ ev.was.count = 1 /\ ev.was.chan = 2

(* ------------------------------ C33 ----------------------------------- *)

\* the count of each record is the number of grants that returned True less
\* the number of revokes that returned True, once every handler has returned
\* (the store begins empty, so the initial count is 0)
C33_FinalCount ==
    AllIdle =>
        \A id \in UserIds : UCount(reps, id) = granted[id] - revoked[id]

\* the user write of a revoke that returns True takes one off the count the
\* store holds at the time of the write
C33_RevokeStep ==
    \A id \in UserIds :
        revoked'[id] = revoked[id] + 1 =>
            UCount(reps', id) = Max(0, UCount(reps, id) - 1)

\* C33 (SpecConc): in every interleaving of grants and revokes on a
\* recipient, the final count is the number of successful grants less the
\* number of successful revokes, and a revoke's read-then-write does not
\* overwrite a grant committed between its read and its write: its write
\* takes one off the count the store holds.
C33_MixedConservation ==
    /\ []C33_FinalCount
    /\ [][C33_RevokeStep]_vars

(* ------------------------------ C34 ----------------------------------- *)

\* the documents of the collection coll other than id are the same in coll2
C34_OthersKept(coll, coll2, id) ==
    /\ DOMAIN coll2 \ {id} = DOMAIN coll \ {id}
    /\ \A x \in DOMAIN coll \ {id} : coll2[x] = coll[x]

\* the entries of the channels mapping of the user record id other than c are
\* the same in R2
C34_EntriesKept(R, R2, id, c) ==
    id \in DOMAIN R =>
        /\ id \in DOMAIN R2
        /\ DOMAIN R2[id].channels \ {c} = DOMAIN R[id].channels \ {c}
        /\ \A x \in DOMAIN R[id].channels \ {c} :
              R2[id].channels[x] = R[id].channels[x]

\* a step of give_rep(g, u, c, ...) or remove_rep(g, u, c or None) keeps every
\* user record but (g, u), every channel record but (g, c), and in the record
\* (g, u) every entry of channels but c
C34_FrameStep ==
    (nops' = nops + 1 /\ ev'.kind \in {"give_rep", "remove_rep"}) =>
        /\ C34_OthersKept(reps, reps', DocId(ev'.g, ev'.u))
        /\ C34_OthersKept(chans, chans', DocId(ev'.g, ev'.c))
        /\ C34_EntriesKept(reps, reps', DocId(ev'.g, ev'.u), ev'.c)

\* C34 (SpecQuery): give_rep(guild, u, c, ...) and remove_rep(guild, u, c or
\* no channel) modify at most the user record (guild, u) and the channel
\* record (guild, c); the records of another guild, user or channel, and the
\* entries channels[c2] of u's record for c2 other than c, stay as they were.
C34_Frame == [][C34_FrameStep]_vars

\* a grant to (g, u) in c has run on a store that holds a record of another
\* guild, a record of another user of g, a record of another channel of g,
\* and in u's record an entry of another channel
C34_Witness ==
    /\ ev.kind = "give_rep" /\ ev.ok
    /\ \E id \in DOMAIN reps : id[1] # ev.g
    /\ \E id \in DOMAIN reps : id[1] = ev.g /\ id[2] # ev.u
    /\ \E id \in DOMAIN chans : id[1] = ev.g /\ id[2] # ev.c
    /\ DOMAIN reps[DocId(ev.g, ev.u)].channels \ {ev.c} # {}

\* the same frame for the handler run last in Spec, store errors included
C34_FrameWithErrors ==
    last.op \in {"give_rep", "remove_rep"} =>
        /\ C34_OthersKept(pre.reps, reps, LastUser)
        /\ C34_OthersKept(pre.chans, chans, LastChannel)
        /\ C34_EntriesKept(pre.reps, reps, LastUser, last.a.c)

(* ------------------------------ C35 ----------------------------------- *)

\* an update_cooldown(u) step sets u's entry to the clock reading, whether or
\* not u had one, and keeps the other entries; no step takes an entry away
C35_RecordStep ==
    /\ ev' # ev =>
          /\ ev'.kind = "update_cooldown"
          /\ DOMAIN rep_cooldowns' = DOMAIN rep_cooldowns \cup {ev'.u}
          /\ rep_cooldowns'[ev'.u] = now
          /\ \A v \in DOMAIN rep_cooldowns \ {ev'.u} :
                rep_cooldowns'[v] = rep_cooldowns[v]
    /\ DOMAIN rep_cooldowns \subseteq DOMAIN rep_cooldowns'

\* C35 (SpecCooldown): update_cooldown(giver) overwrites the giver's entry
\* with the present clock reading unconditionally and leaves every other
\* giver's entry as it was; no operation removes an entry, so a giver once
\* recorded stays in the map.
C35_RecordGrant == [][C35_RecordStep]_vars

\* an entry has been overwritten within its own cooldown window, beside the
\* older entry of another giver
C35_Witness ==
    /\ ev.kind = "update_cooldown"
    /\ ev.had
    /\ 0 < ev.t /\ ev.t < COOLDOWN_SECONDS * TicksPerSecond
    /\ rep_cooldowns[ev.u] = ev.t
    /\ \E v \in DOMAIN rep_cooldowns \ {ev.u} : rep_cooldowns[v] < ev.t

(* ------------------------------ C36 ----------------------------------- *)

\* whenever is_on_cooldown(giver) is true at a clock reading,
\* get_cooldown_remaining(giver) at the same reading is at least 1 and at most
\* COOLDOWN_SECONDS, and format_cooldown of it is not the empty string
C36_AtOneReading ==
    \A u \in Givers :
        is_on_cooldown(rep_cooldowns, u, now) =>
            LET remaining == get_cooldown_remaining(rep_cooldowns, u, now)
            IN  /\ 1 <= remaining
                /\ remaining <= COOLDOWN_SECONDS
                /\ format_cooldown(remaining) # ""

\* C36 (SpecReject): whenever is_on_cooldown(giver) is true at a clock
\* reading, get_cooldown_remaining(giver) at the same reading is at least 1
\* and at most COOLDOWN_SECONDS, and the formatted duration carried by a
\* cooldown rejection is not the empty string.
C36_RemainingWhileOnCooldown ==
    /\ C36_AtOneReading
    /\ ev.kind = "cooldown_rejection" => ev.remaining_str # ""

(* ------------------------------ C37 ----------------------------------- *)

\* a value with its unit, in the plural iff the value is greater than 1
C37_Unit(n, one, many) == ToString(n) \o " " \o (IF n > 1 THEN many ELSE one)

\* two texts comma-joined, an empty one left out
C37_Comma(a, b) ==
    IF a = "" THEN b ELSE IF b = "" THEN a ELSE a \o ", " \o b

\* the text of d seconds: hours iff h >= 1, minutes iff m >= 1, seconds iff
\* h = 0 and s > 0, in this order
C37_Text(d) ==
    LET h == d \div 3600
        m == (d % 3600) \div 60
        s == d % 60
    IN  C37_Comma(
            C37_Comma(IF h >= 1 THEN C37_Unit(h, "hour", "hours") ELSE "",
                      IF m >= 1 THEN C37_Unit(m, "minute", "minutes") ELSE ""),
            IF h = 0 /\ s > 0 THEN C37_Unit(s, "second", "seconds") ELSE "")

\* C37 (SpecFormat): format_cooldown of a whole number of seconds d >= 0, with
\* h = d div 3600, m = (d mod 3600) div 60 and s = d mod 60, lists in this
\* order and comma-joined the hours iff h >= 1, the minutes iff m >= 1 and
\* the seconds iff h = 0 and s > 0, each unit in the plural iff its value is
\* greater than 1.
C37_FormatCooldown ==
    ev.kind = "format_cooldown" => ev.text = C37_Text(ev.seconds)

\* 2 hours, 2 minutes and 2 seconds are formatted without the seconds
C37_Witness ==
    /\ ev.kind = "format_cooldown"
    /\ ev.seconds = 7322
    /\ ev.text = "2 hours, 2 minutes"

\* the texts of some durations: singular and plural, a part left out, and
\* nothing at all for 0 seconds
C37_Examples ==
    /\ format_cooldown(0) = ""
    /\ format_cooldown(1) = "1 second"
    /\ format_cooldown(59) = "59 seconds"
    /\ format_cooldown(60) = "1 minute"
    /\ format_cooldown(61) = "1 minute, 1 second"
    /\ format_cooldown(150) = "2 minutes, 30 seconds"
    /\ format_cooldown(3600) = "1 hour"
    /\ format_cooldown(3601) = "1 hour"
    /\ format_cooldown(3661) = "1 hour, 1 minute"

(* ------------------------------ C38 ----------------------------------- *)

\* C38 (SpecPage): whatever the sequence and the interleaving of the
\* Previous, Next and Global handlers of one LeaderboardView, on an empty
\* leaderboard too, the page of the view is at least 1.
C38_PageAtLeastOne == view.open => view.page >= 1
====
